---- MODULE Spec2Model ----
(***************************************************************************)
(* The extension registry and the composition engine of catalyst-pluginizr *)
(* (registry.ts, plugin-builder, with-plugins.tsx).                        *)
(*                                                                         *)
(* A composed artifact is a chain of plugin descriptors, OUTERMOST FIRST:  *)
(* the wrapper closure `PluginWrapper` that closes over (plugin, inner) is *)
(* the sequence <<plugin>> \o inner, and the original export is <<>>.      *)
(***************************************************************************)
EXTENDS Integers, Sequences, FiniteSets, TLC

\* ------------------------------------------------------------- bounds
\* chains one composed function may build before the model stops calling it
MaxCalls == 2

\* ------------------------------------------------------------- types
\* enum EPluginType
Component == "component"
Function == "function"
Value == "value"
EPluginType == {Component, Function, Value}

ResourceIds == {"r1", "r2"}

\* process.env.NODE_ENV
NodeEnvs == {"production", "development"}

\* per-invocation arguments (props of a render, arguments of a call)
Args == {"x", "y"}

\* values handed to withPluginsVal
Values == {"USD", "GBP"}

\* `sortOrder?: number` : <<>> is an absent sortOrder, <<n>> is sortOrder n
NoSortOrder == <<>>

\* An authored plugin (the argument of componentPlugin / functionPlugin /
\* valuePlugin): CatalystPlugin without its type.  wrap names a behaviour:
\*   callInner  (target, ...args) => target(...args)
\*   skipInner  () => "blocked"              never invokes its target
\*   toEUR      (v) => v === "USD" ? "EUR" : v
\*   append001  (v) => v + "-001"
Authored(name, resourceId, sortOrder, wrap) ==
  [name |-> name, resourceId |-> resourceId, sortOrder |-> sortOrder, wrap |-> wrap]

\* The wrap shapes TypeScript accepts for each builder
\* (PluginComponentWrapper / PluginFunctionWrapper / PluginValueWrapper).
WrapFits(wrap, type) ==
  IF type = Value THEN wrap \in {"toEUR", "append001"}
  ELSE wrap \in {"callInner", "skipInner"}

\* One extension module of the workspace: the authored plugin and the
\* builder its default export is created with.
Module(builder, plugin) == [builder |-> builder, plugin |-> plugin]

\* The workspaces the model explores: the extension modules that exist, and
\* for each resource id the kind of the export it names.
WorkspaceOrder ==
  [modules |-> { Module(Component, Authored("header-promo", "r1", <<-10>>, "callInner")),
                 Module(Component, Authored("header-analytics", "r1", <<0>>, "callInner")),
                 Module(Component, Authored("header-customization", "r1", <<10>>, "callInner")) },
   exportKind |-> [r \in ResourceIds |-> IF r = "r1" THEN Component ELSE Function]]

WorkspaceCard ==
  [modules |-> { Module(Component, Authored("banner", "r1", <<-5>>, "callInner")),
                 Module(Component, Authored("tracker", "r1", <<0>>, "callInner")),
                 Module(Function, Authored("logger", "r2", NoSortOrder, "callInner")) },
   exportKind |-> [r \in ResourceIds |-> IF r = "r1" THEN Component ELSE Function]]

WorkspaceGateFn ==
  [modules |-> { Module(Function, Authored("early", "r1", <<-10>>, "callInner")),
                 Module(Function, Authored("gate", "r1", <<0>>, "skipInner")),
                 Module(Function, Authored("late", "r1", <<10>>, "callInner")) },
   exportKind |-> [r \in ResourceIds |-> IF r = "r1" THEN Function ELSE Value]]

WorkspaceGateFC ==
  [modules |-> { Module(Component, Authored("early", "r1", <<-10>>, "callInner")),
                 Module(Component, Authored("gate", "r1", <<0>>, "skipInner")),
                 Module(Component, Authored("late", "r1", <<10>>, "callInner")) },
   exportKind |-> [r \in ResourceIds |-> IF r = "r1" THEN Component ELSE Value]]

WorkspaceValue ==
  [modules |-> { Module(Value, Authored("A", "r1", <<-10>>, "toEUR")),
                 Module(Value, Authored("B", "r1", <<0>>, "append001")),
                 Module(Value, Authored("C", "r2", NoSortOrder, "append001")) },
   exportKind |-> [r \in ResourceIds |-> Value]]

WorkspaceMixed ==
  [modules |-> { Module(Component, Authored("c", "r1", <<0>>, "callInner")),
                 Module(Function, Authored("f", "r1", <<-5>>, "skipInner")),
                 Module(Value, Authored("v", "r1", NoSortOrder, "append001")),
                 Module(Function, Authored("g", "r2", <<10>>, "callInner")) },
   exportKind |-> [r \in ResourceIds |-> IF r = "r1" THEN Component ELSE Function]]

\* one extension without a sortOrder between a negative and a positive one
WorkspaceDefault ==
  [modules |-> { Module(Component, Authored("neg", "r1", <<-5>>, "callInner")),
                 Module(Component, Authored("dflt", "r1", NoSortOrder, "callInner")),
                 Module(Component, Authored("pos", "r1", <<5>>, "callInner")) },
   exportKind |-> [r \in ResourceIds |-> IF r = "r1" THEN Component ELSE Value]]

\* two extensions of one resource id under the same name, and a third one of
\* another resource id under that name too
WorkspaceDuplicate ==
  [modules |-> { Module(Component, Authored("promo", "r1", <<5>>, "callInner")),
                 Module(Component, Authored("promo", "r1", <<-5>>, "skipInner")),
                 Module(Function, Authored("promo", "r2", <<0>>, "callInner")) },
   exportKind |-> [r \in ResourceIds |-> IF r = "r1" THEN Component ELSE Function]]

Workspaces ==
  { WorkspaceOrder, WorkspaceCard, WorkspaceGateFn, WorkspaceGateFC,
    WorkspaceValue, WorkspaceMixed, WorkspaceDefault, WorkspaceDuplicate }

\* ------------------------------------------------------------- state
VARIABLES
  NODE_ENV,      \* process.env.NODE_ENV
  workspace,     \* the extension modules that exist and the kinds of the exports
  plugins,       \* registry: resourceId -> CatalystPlugin[] (type-tagged)
  fcPlugins,     \* registry.ts: resourceId -> ComponentPlugin[]
  fnPlugins,     \* registry.ts: resourceId -> FunctionPlugin[]
  valPlugins,    \* registry.ts: resourceId -> ValuePlugin[]
  pluginsCache,  \* Map<string, CatalystPlugin[]>: a function on the cached ids
  exported,      \* the export under observation: what the last with* call returned
  calls,         \* the wraps invoked by the last operation, and its result
  errors,        \* the console lines (error, warn) of the last operation
  last,          \* the last operation and its argument
  rewriter,      \* the revision of the rewriter at work (pluginizr.ts / pluginizr.js)
  disk,          \* the package.json and tsconfig.json files that exist
  pluginizedComponents,  \* getPluginizedComponents(): resource id -> aggregator hash
  source,        \* the module handed to the loader: resourcePath and inputCode
  result,        \* what the loader handed to its callback, and the rewriter's outcome
  dependencies,  \* the addDependency / addMissingDependency calls of the rewriter
  componentCode, \* the outcome of the last getComponentCode call
  walk,          \* findUp under way: the file looked for, the directory, the outcome
  pluginsDir,    \* the plugin source files below the plugins directory
  generatedDir   \* the generated directory: whether it exists, and its files

engineVars ==
  << NODE_ENV, workspace, plugins, fcPlugins, fnPlugins, valPlugins, pluginsCache,
     exported, calls, errors, last >>

loaderVars ==
  << rewriter, disk, pluginizedComponents, source, result, dependencies, componentCode >>

setupVars == << walk, pluginsDir, generatedDir >>

vars == << engineVars, loaderVars, setupVars >>

registryVars == << plugins, fcPlugins, fnPlugins, valPlugins >>

NoCalls == [wraps |-> <<>>, original |-> FALSE, ret |-> "", threw |-> FALSE]

\* exported.kind is "none" before the first composition; ref is "original" when
\* the with* call returned the very object it was given and "wrapper" when it
\* returned a new function; chain is the composed component's chain; value is
\* the composed value; builds counts the chains a composed function has built.
NoExport ==
  [kind |-> "none", resourceId |-> "", ref |-> "", chain |-> <<>>,
   displayName |-> "", value |-> "", builds |-> 0]

Op(op, resourceId, arg) == [op |-> op, resourceId |-> resourceId, arg |-> arg]

\* The build-time side before any module is built: no file on disk, no
\* resource id with extensions, no module handed to the loader.
NoDisk == [packageJson |-> {}, tsconfig |-> {}]
NoSource == [resourcePath |-> [dir |-> <<>>, name |-> <<>>], inputCode |-> <<>>]
NoResult == [callbacks |-> <<>>, rewritten |-> "none", passes |-> <<>>]
NoComponentCode ==
  [filename |-> [dir |-> <<>>, name |-> <<>>], identifierName |-> "",
   isDefaultExport |-> FALSE, threw |-> FALSE, message |-> <<>>, code |-> ""]

NoWalk == [filename |-> "", startDir |-> <<>>, dir |-> <<>>, visited |-> <<>>, status |-> "idle"]
NoGeneratedDir == [exists |-> FALSE, files |-> <<>>]

\* No walk under way, no plugin file, no generated directory.
SetupIdle ==
  /\ walk = NoWalk
  /\ pluginsDir = {}
  /\ generatedDir = NoGeneratedDir

LoaderIdle ==
  /\ rewriter = "pluginizr.ts"
  /\ disk = NoDisk
  /\ pluginizedComponents = {}
  /\ source = NoSource
  /\ result = NoResult
  /\ dependencies = <<>>
  /\ componentCode = NoComponentCode

Init ==
  /\ NODE_ENV \in NodeEnvs
  /\ workspace \in Workspaces
  /\ plugins = [r \in ResourceIds |-> <<>>]
  /\ fcPlugins = [r \in ResourceIds |-> <<>>]
  /\ fnPlugins = [r \in ResourceIds |-> <<>>]
  /\ valPlugins = [r \in ResourceIds |-> <<>>]
  /\ pluginsCache = [r \in {} |-> <<>>]
  /\ exported = NoExport
  /\ calls = NoCalls
  /\ errors = <<>>
  /\ last = Op("init", "", "")
  /\ LoaderIdle
  /\ SetupIdle

\* ------------------------------------------------------------- plugin-builder
\* componentPlugin: ({...plugin, type: EPluginType.Component})
componentPlugin(plugin) ==
  [name |-> plugin.name, resourceId |-> plugin.resourceId,
   sortOrder |-> plugin.sortOrder, wrap |-> plugin.wrap, type |-> Component]

\* functionPlugin: ({...plugin, type: EPluginType.Function})
functionPlugin(plugin) ==
  [name |-> plugin.name, resourceId |-> plugin.resourceId,
   sortOrder |-> plugin.sortOrder, wrap |-> plugin.wrap, type |-> Function]

\* valuePlugin: ({...plugin, type: EPluginType.Value})
valuePlugin(plugin) ==
  [name |-> plugin.name, resourceId |-> plugin.resourceId,
   sortOrder |-> plugin.sortOrder, wrap |-> plugin.wrap, type |-> Value]

\* ------------------------------------------------------------- registry
\* unshift in place of push: the descriptor goes to the front of its list.
PushFront(table, plugin) ==
  [table EXCEPT ![plugin.resourceId] = <<plugin>> \o @]

\* A registry that drops every registration made after the sorted cache has
\* been filled.
PushUnlessCached(table, plugin) ==
  IF DOMAIN pluginsCache # {} THEN table
  ELSE [table EXCEPT ![plugin.resourceId] = Append(@, plugin)]

\* table[resourceId] ??= []; table[resourceId].push(plugin)
Push(table, plugin) ==
  [table EXCEPT ![plugin.resourceId] = Append(@, plugin)]

\* Has this descriptor been pushed to the table already?  An extension module
\* is evaluated once, so its descriptor is registered once.
IsRegistered(table, plugin) ==
  \E i \in 1..Len(table[plugin.resourceId]) : table[plugin.resourceId][i] = plugin

\* The lookup without the filter on the type.
getPluginsUnfiltered(resourceId, type) ==
  plugins[resourceId]

\* res.filter((plugin) => plugin.type === type)
getPlugins(resourceId, type) ==
  SelectSeq(plugins[resourceId], LAMBDA plugin : plugin.type = type)

\* The console.error lines of getPlugins: one per plugin of another type,
\* in development only.
MismatchLine(plugin, type) ==
  [name |-> plugin.name, resourceId |-> plugin.resourceId,
   expected |-> type, actual |-> plugin.type]

\* A lookup that reports a mismatch once per call, whatever the number of
\* plugins of another type.
getPluginsErrorsOnce(resourceId, type) ==
  IF NODE_ENV = "development" /\ \E i \in 1..Len(plugins[resourceId]) : plugins[resourceId][i].type # type
  THEN <<MismatchLine(SelectSeq(plugins[resourceId], LAMBDA plugin : plugin.type # type)[1], type)>>
  ELSE <<>>

getPluginsErrors(resourceId, type) ==
  IF NODE_ENV = "development"
  THEN LET invalidPlugins == SelectSeq(plugins[resourceId], LAMBDA plugin : plugin.type # type)
       IN [i \in 1..Len(invalidPlugins) |-> MismatchLine(invalidPlugins[i], type)]
  ELSE <<>>

\* ------------------------------------------------------------- getSortedPlugins
\* A comparator that puts a plugin without a sortOrder after every other one.
SortKeyAbsentLast(plugin) ==
  IF plugin.sortOrder = NoSortOrder THEN 1000 ELSE plugin.sortOrder[1]

\* (a.sortOrder ?? 0)
SortKey(plugin) ==
  IF plugin.sortOrder = NoSortOrder THEN 0 ELSE plugin.sortOrder[1]

\* Array.prototype.sort with the comparator (a, b) => key(a) - key(b): a stable
\* sort; the element goes after every element whose key is not greater.
RECURSIVE InsertSorted(_, _)
InsertSorted(sorted, plugin) ==
  IF sorted = <<>> THEN <<plugin>>
  ELSE IF SortKey(Head(sorted)) <= SortKey(plugin)
       THEN <<Head(sorted)>> \o InsertSorted(Tail(sorted), plugin)
       ELSE <<plugin>> \o sorted

RECURSIVE SortPlugins(_)
SortPlugins(list) ==
  IF list = <<>> THEN <<>>
  ELSE InsertSorted(SortPlugins(SubSeq(list, 1, Len(list) - 1)), list[Len(list)])

\* A cache that is used under every NODE_ENV.
CacheHitAlways(resourceId) == resourceId \in DOMAIN pluginsCache

\* process.env.NODE_ENV === 'production' && pluginsCache.has(resourceId)
CacheHit(resourceId) ==
  NODE_ENV = "production" /\ resourceId \in DOMAIN pluginsCache

\* The list getSortedPlugins returns.
getSortedPlugins(resourceId, type) ==
  IF CacheHit(resourceId) THEN pluginsCache[resourceId]
  ELSE SortPlugins(getPlugins(resourceId, type))

\* pluginsCache after getSortedPlugins: pluginsCache.set(resourceId, plugins)
\* unless the cached list was returned.
CacheAfter(resourceId, type) ==
  IF CacheHit(resourceId) THEN pluginsCache
  ELSE [r \in DOMAIN pluginsCache \cup {resourceId} |->
          IF r = resourceId THEN SortPlugins(getPlugins(resourceId, type))
          ELSE pluginsCache[r]]

\* A sort of the registry's own list: what getSortedPlugins would leave in the
\* registry if it sorted plugins[resourceId] itself.
SortInPlace(resourceId, type) ==
  IF CacheHit(resourceId) THEN plugins
  ELSE [plugins EXCEPT ![resourceId] = SortPlugins(@)]

\* The registry after getSortedPlugins: filter and slice hand the sort an
\* array of its own, so plugins[resourceId] is the array it was.
SortCopy(resourceId, type) == plugins

\* console.error lines of a getSortedPlugins call.
SortedErrors(resourceId, type) ==
  IF CacheHit(resourceId) THEN <<>> ELSE getPluginsErrors(resourceId, type)

\* ------------------------------------------------------------- folds
\* The closure (props) => plugin.wrap({...props, WrappedComponent: inner}) and
\* the closure (...args) => plugin.wrap(acc, ...args): plugin around inner.
PluginWrapper(plugin, inner) == <<plugin>> \o inner

\* The fold taken from the right: the last plugin of the list wraps the
\* original and the first ends up outermost.
RECURSIVE ReduceRight(_, _)
ReduceRight(list, acc) ==
  IF list = <<>> THEN acc
  ELSE ReduceRight(SubSeq(list, 1, Len(list) - 1), PluginWrapper(list[Len(list)], acc))

\* plugins.reduce((acc, plugin) => wrapper(plugin, acc), original)
RECURSIVE Reduce(_, _)
Reduce(list, acc) ==
  IF list = <<>> THEN acc
  ELSE Reduce(Tail(list), PluginWrapper(Head(list), acc))

\* Does this wrap invoke the target it is given?
InvokesInner(wrap) == wrap = "callInner"

\* What a wrap returns when it does not invoke its target (a value wrap
\* returns its first argument, or that argument with "-001" appended).
WrapReturn(wrap) ==
  IF wrap = "skipInner" THEN "blocked"
  ELSE IF wrap = "toEUR" THEN "arg0"
  ELSE "arg0-001"

\* Invoking a chain with one argument: the wraps run from the outermost
\* inwards for as long as each invokes its target; the original returns its
\* argument.
RECURSIVE Invoke(_, _)
Invoke(chain, arg) ==
  IF chain = <<>>
  THEN [wraps |-> <<>>, original |-> TRUE, ret |-> arg, threw |-> FALSE]
  ELSE LET plugin == Head(chain)
           inner == Invoke(Tail(chain), arg)
       IN IF InvokesInner(plugin.wrap)
          THEN [inner EXCEPT !.wraps = <<plugin>> \o @]
          ELSE [wraps |-> <<plugin>>, original |-> FALSE,
                ret |-> WrapReturn(plugin.wrap), threw |-> FALSE]

\* plugin.wrap(enhancedValue) on a string value.  A wrap that calls its
\* argument throws a TypeError.
WrapThrowsOnValue(wrap) == wrap = "callInner"

WrapValue(wrap, value) ==
  IF wrap = "toEUR" THEN (IF value = "USD" THEN "EUR" ELSE value)
  ELSE IF wrap = "append001" THEN value \o "-001"
  ELSE "blocked"

\* The value fold taken from the right: the last plugin of the list is the
\* first to receive the value.
RECURSIVE ReduceValueRight(_, _)
ReduceValueRight(list, acc) ==
  IF list = <<>> \/ acc.threw THEN acc
  ELSE LET plugin == list[Len(list)]
       IN IF WrapThrowsOnValue(plugin.wrap)
          THEN [acc EXCEPT !.wraps = Append(@, plugin), !.threw = TRUE]
          ELSE ReduceValueRight(SubSeq(list, 1, Len(list) - 1),
                 [acc EXCEPT !.wraps = Append(@, plugin),
                             !.ret = WrapValue(plugin.wrap, acc.ret)])

\* plugins.reduce((enhancedValue, plugin) => plugin.wrap(enhancedValue), value)
RECURSIVE ReduceValue(_, _)
ReduceValue(list, acc) ==
  IF list = <<>> \/ acc.threw THEN acc
  ELSE LET plugin == Head(list)
       IN IF WrapThrowsOnValue(plugin.wrap)
          THEN [acc EXCEPT !.wraps = Append(@, plugin), !.threw = TRUE]
          ELSE ReduceValue(Tail(list),
                 [acc EXCEPT !.wraps = Append(@, plugin),
                             !.ret = WrapValue(plugin.wrap, acc.ret)])

\* ------------------------------------------------------------- register
RegisterComponentPlugin ==
  \E m \in workspace.modules :
    /\ m.builder = Component
    /\ ~IsRegistered(plugins, componentPlugin(m.plugin))
    /\ plugins' = Push(plugins, componentPlugin(m.plugin))
    /\ fcPlugins' = Push(fcPlugins, m.plugin)
    /\ calls' = NoCalls
    /\ errors' = <<>>
    /\ last' = Op("register", m.plugin.resourceId, m.plugin.name)
    /\ UNCHANGED << loaderVars, setupVars, NODE_ENV, workspace, fnPlugins, valPlugins, pluginsCache, exported >>

RegisterFunctionPlugin ==
  \E m \in workspace.modules :
    /\ m.builder = Function
    /\ ~IsRegistered(plugins, functionPlugin(m.plugin))
    /\ plugins' = Push(plugins, functionPlugin(m.plugin))
    /\ fnPlugins' = Push(fnPlugins, m.plugin)
    /\ calls' = NoCalls
    /\ errors' = <<>>
    /\ last' = Op("register", m.plugin.resourceId, m.plugin.name)
    /\ UNCHANGED << loaderVars, setupVars, NODE_ENV, workspace, fcPlugins, valPlugins, pluginsCache, exported >>

RegisterValuePlugin ==
  \E m \in workspace.modules :
    /\ m.builder = Value
    /\ ~IsRegistered(plugins, valuePlugin(m.plugin))
    /\ plugins' = Push(plugins, valuePlugin(m.plugin))
    /\ valPlugins' = Push(valPlugins, m.plugin)
    /\ calls' = NoCalls
    /\ errors' = <<>>
    /\ last' = Op("register", m.plugin.resourceId, m.plugin.name)
    /\ UNCHANGED << loaderVars, setupVars, NODE_ENV, workspace, fcPlugins, fnPlugins, pluginsCache, exported >>

\* ------------------------------------------------------------- withPluginsFC
\* ComposeFC with the empty-list early return left out: the (empty) fold result
\* is renamed and returned as a new component.
ComposeFC_NoEarlyReturn(resourceId, list) ==
  [NoExport EXCEPT !.kind = Component, !.resourceId = resourceId,
                   !.ref = "wrapper", !.chain = Reduce(list, <<>>),
                   !.displayName = "WithPlugins(Card)"]

\* The component withPluginsFC returns for the sorted list it got: the original
\* itself when the list is empty, else the outermost PluginWrapper, renamed.
ComposeFC(resourceId, list) ==
  IF Len(list) = 0
  THEN [NoExport EXCEPT !.kind = Component, !.resourceId = resourceId,
                        !.ref = "original", !.displayName = "Card"]
  ELSE [NoExport EXCEPT !.kind = Component, !.resourceId = resourceId,
                        !.ref = "wrapper", !.chain = Reduce(list, <<>>),
                        !.displayName = "WithPlugins(Card)"]

WithPluginsFC(resourceId) ==
  /\ exported' = ComposeFC(resourceId, getSortedPlugins(resourceId, Component))
  /\ pluginsCache' = CacheAfter(resourceId, Component)
  /\ errors' = SortedErrors(resourceId, Component)
  /\ calls' = NoCalls
  /\ last' = Op("withPluginsFC", resourceId, "")
  /\ plugins' = SortCopy(resourceId, Component)
  /\ UNCHANGED << loaderVars, setupVars, NODE_ENV, workspace, fcPlugins, fnPlugins, valPlugins >>

\* Rendering the composed component with some props.
Render(props) ==
  /\ exported.kind = Component
  /\ calls' = Invoke(exported.chain, props)
  /\ errors' = <<>>
  /\ last' = Op("render", exported.resourceId, props)
  /\ UNCHANGED << loaderVars, setupVars, NODE_ENV, workspace, registryVars, pluginsCache, exported >>

\* ------------------------------------------------------------- withPluginsFn
\* withPluginsFn returns a new arrow function whatever the registry holds; the
\* lookup and the fold happen inside that function, on every call.
ComposeFn(resourceId) ==
  [NoExport EXCEPT !.kind = Function, !.resourceId = resourceId, !.ref = "wrapper"]

WithPluginsFn(resourceId) ==
  /\ exported' = ComposeFn(resourceId)
  /\ calls' = NoCalls
  /\ errors' = <<>>
  /\ last' = Op("withPluginsFn", resourceId, "")
  /\ UNCHANGED << loaderVars, setupVars, NODE_ENV, workspace, registryVars, pluginsCache >>

\* One invocation of the composed function, for the sorted list it got: the
\* chain it builds (none for an empty list, where it calls the original).
CallChain(list) == IF Len(list) = 0 THEN <<>> ELSE Reduce(list, <<>>)

\* An invocation that reuses a chain built earlier builds none.
BuiltNever(list) == Len(list) - Len(list)

BuiltPerCall(list) == IF Len(list) = 0 THEN 0 ELSE 1

\* Invoking the function withPluginsFn returned.
CallFn(arg) ==
  LET list == getSortedPlugins(exported.resourceId, Function) IN
    /\ exported.kind = Function
    /\ exported.builds < MaxCalls
    /\ exported' = [exported EXCEPT !.builds = @ + BuiltPerCall(list)]
    /\ calls' = Invoke(CallChain(list), arg)
    /\ pluginsCache' = CacheAfter(exported.resourceId, Function)
    /\ errors' = SortedErrors(exported.resourceId, Function)
    /\ last' = Op("callFn", exported.resourceId, arg)
    /\ plugins' = SortCopy(exported.resourceId, Function)
    /\ UNCHANGED << loaderVars, setupVars, NODE_ENV, workspace, fcPlugins, fnPlugins, valPlugins >>

\* ------------------------------------------------------------- withPluginsVal
\* The fold of withPluginsVal over the sorted list it got.
ComposeVal(list, value) ==
  IF Len(list) = 0
  THEN [NoCalls EXCEPT !.ret = value]
  ELSE ReduceValue(list, [NoCalls EXCEPT !.ret = value])

WithPluginsVal(resourceId, value) ==
  LET res == ComposeVal(getSortedPlugins(resourceId, Value), value) IN
    /\ calls' = res
    /\ exported' = IF res.threw THEN exported
                   ELSE [NoExport EXCEPT !.kind = Value, !.resourceId = resourceId,
                                         !.value = res.ret]
    /\ pluginsCache' = CacheAfter(resourceId, Value)
    /\ errors' = SortedErrors(resourceId, Value)
    /\ last' = Op("withPluginsVal", resourceId, value)
    /\ plugins' = SortCopy(resourceId, Value)
    /\ UNCHANGED << loaderVars, setupVars, NODE_ENV, workspace, fcPlugins, fnPlugins, valPlugins >>

\* Reading the export that holds the composed value: a plain variable read.
ReadValue ==
  /\ exported.kind = Value
  /\ calls' = [NoCalls EXCEPT !.ret = exported.value]
  /\ errors' = <<>>
  /\ last' = Op("readValue", exported.resourceId, "")
  /\ UNCHANGED << loaderVars, setupVars, NODE_ENV, workspace, registryVars, pluginsCache, exported >>

\* ------------------------------------------------------------- specifications
\* The engine's public API (index.ts), called in any order.
Next ==
  \/ RegisterComponentPlugin
  \/ RegisterFunctionPlugin
  \/ RegisterValuePlugin
  \/ \E r \in ResourceIds : WithPluginsFC(r)
  \/ \E a \in Args : Render(a)
  \/ \E r \in ResourceIds : WithPluginsFn(r)
  \/ \E a \in Args : CallFn(a)
  \/ \E r \in ResourceIds, v \in Values : WithPluginsVal(r, v)
  \/ ReadValue

Spec == Init /\ [][Next]_vars

\* Has any composition call been issued?  (withPluginsFC and withPluginsVal fill
\* the cache, withPluginsFn leaves its closure in `exported`.)
ComposeIssued == exported.kind # "none" \/ DOMAIN pluginsCache # {}

\* The engine as the rewritten modules drive it: the extension modules are
\* loaded (and register) before the first composition, and the export a
\* resource id names is composed with the entry point of its kind.
NextPipeline ==
  \/ ~ComposeIssued /\ RegisterComponentPlugin
  \/ ~ComposeIssued /\ RegisterFunctionPlugin
  \/ ~ComposeIssued /\ RegisterValuePlugin
  \/ \E r \in ResourceIds : workspace.exportKind[r] = Component /\ WithPluginsFC(r)
  \/ \E a \in Args : Render(a)
  \/ \E r \in ResourceIds : workspace.exportKind[r] = Function /\ WithPluginsFn(r)
  \/ \E a \in Args : CallFn(a)
  \/ \E r \in ResourceIds, v \in Values :
       workspace.exportKind[r] = Value /\ WithPluginsVal(r, v)
  \/ ReadValue

SpecPipeline == Init /\ [][NextPipeline]_vars

\* ------------------------------------------------------------- paths
\* A directory is the sequence of its segments below the filesystem root (<<>>
\* is the root itself).  A file is a directory and a name; the name is a
\* sequence of tokens, the base name followed by its dot-suffixes:
\* header.tsx is <<"header", ".tsx">>, types.d.ts is <<"types", ".d", ".ts">>.
File(dir, name) == [dir |-> dir, name |-> name]

PkgRoot == <<"pkg-root">>
HeaderTsx == File(<<"pkg-root", "src", "components">>, <<"header", ".tsx">>)
HeaderTs == File(<<"pkg-root", "src", "components">>, <<"header", ".ts">>)
HeaderIndexTsx == File(<<"pkg-root", "src", "components", "header">>, <<"index", ".tsx">>)
SrcIndexTs == File(<<"pkg-root", "src">>, <<"index", ".ts">>)
LibUtilJs == File(<<"pkg-root", "lib">>, <<"util", ".js">>)
TypesDTs == File(<<"pkg-root", "src">>, <<"types", ".d", ".ts">>)
DepIndexJs == File(<<"pkg-root", "node_modules", "dep">>, <<"index", ".js">>)
EngineIndexTs == File(<<"pkg-root", "packages", "catalyst-pluginizr", "src">>, <<"index", ".ts">>)
OrphanTs == File(<<>>, <<"orphan", ".ts">>)

Files ==
  { HeaderTsx, HeaderTs, HeaderIndexTsx, SrcIndexTs, LibUtilJs, TypesDTs,
    DepIndexJs, EngineIndexTs, OrphanTs }

\* identifier names of exports
Identifiers == {"Header", "helper"}

\* A package.json (name "" when it has no name field) and a tsconfig.json
\* (baseUrl as segments; <<>> when it has none or it is ".").
PackageJson(dir, name) == [dir |-> dir, name |-> name]
Tsconfig(dir, baseUrl) == [dir |-> dir, baseUrl |-> baseUrl]

\* package acme with base import root src
DiskAcme ==
  [packageJson |-> {PackageJson(PkgRoot, "acme")},
   tsconfig |-> {Tsconfig(PkgRoot, <<"src">>)}]

\* package acme without a tsconfig.json
DiskNoTsconfig ==
  [packageJson |-> {PackageJson(PkgRoot, "acme")}, tsconfig |-> {}]

\* a nested package below acme, with its own package.json and no tsconfig.json
DiskNested ==
  [packageJson |-> {PackageJson(PkgRoot, "acme"),
                    PackageJson(<<"pkg-root", "node_modules", "dep">>, "dep")},
   tsconfig |-> {Tsconfig(PkgRoot, <<"src">>)}]

\* a package.json without a name
DiskUnnamed ==
  [packageJson |-> {PackageJson(PkgRoot, "")},
   tsconfig |-> {Tsconfig(PkgRoot, <<>>)}]

\* the only package.json lies in the filesystem root
DiskRootOnly ==
  [packageJson |-> {PackageJson(<<>>, "rootpkg")}, tsconfig |-> {}]

Disks == {DiskAcme, DiskNoTsconfig, DiskNested, DiskUnnamed, DiskRootOnly, NoDisk}

\* path.dirname of a directory
dirname(dir) == SubSeq(dir, 1, Len(dir) - 1)

\* fs.existsSync(path.join(dir, filename)) on the files of d
existsSync(d, dir, filename) ==
  IF filename = "package.json" THEN \E f \in d.packageJson : f.dir = dir
  ELSE IF filename = "tsconfig.json" THEN \E f \in d.tsconfig : f.dir = dir
  ELSE FALSE

NotFound == [found |-> FALSE, dir |-> <<>>]

\* The walk that also looks into the root directory before it gives up.
RECURSIVE findUpThroughRoot(_, _, _)
findUpThroughRoot(d, filename, startDir) ==
  IF existsSync(d, startDir, filename) THEN [found |-> TRUE, dir |-> startDir]
  ELSE IF startDir = <<>> THEN NotFound
  ELSE findUpThroughRoot(d, filename, dirname(startDir))

\* findUp: while (dir !== root) { if exists(dir/filename) return it; dir = dirname(dir) }
\* return null.  The result is the directory that holds the file.
RECURSIVE findUp(_, _, _)
findUp(d, filename, startDir) ==
  IF startDir = <<>> THEN NotFound
  ELSE IF existsSync(d, startDir, filename) THEN [found |-> TRUE, dir |-> startDir]
  ELSE findUp(d, filename, dirname(startDir))

\* pkg.name || 'unknown-package'
getPackageName(d, packageJsonDir) ==
  LET pkg == CHOOSE f \in d.packageJson : f.dir = packageJsonDir
  IN IF pkg.name = "" THEN "unknown-package" ELSE pkg.name

\* tsconfig.compilerOptions?.baseUrl || null, and null without a tsconfig.json
getBaseUrl(d, tsconfig) ==
  IF ~tsconfig.found THEN <<>>
  ELSE (CHOOSE f \in d.tsconfig : f.dir = tsconfig.dir).baseUrl

\* filePath.replace(/\.[jt]sx?$/, '') on the name of a file
removeExtension(name) ==
  IF Len(name) > 1 /\ name[Len(name)] \in {".js", ".jsx", ".ts", ".tsx"}
  THEN SubSeq(name, 1, Len(name) - 1)
  ELSE name

\* the length of the longest common prefix of two directories
RECURSIVE CommonPrefix(_, _)
CommonPrefix(a, b) ==
  IF a = <<>> \/ b = <<>> \/ Head(a) # Head(b) THEN 0
  ELSE 1 + CommonPrefix(Tail(a), Tail(b))

\* path.relative(from, to) for two directories: one ".." for every segment of
\* from below the common prefix, then the segments of to below it.
relative(from, to) ==
  LET n == CommonPrefix(from, to)
  IN [i \in 1..(Len(from) - n) |-> ".."] \o SubSeq(to, n + 1, Len(to))

\* relativePathWithoutBaseUrl: path.relative(path.join(projectDir, baseUrl || ''), file),
\* as the segments of the file's directory; the name of the file follows them.
relativePathWithoutBaseUrl(file, projectDir, baseUrl) ==
  relative(projectDir \o baseUrl, file.dir)

\* the string of a file name
RECURSIVE Concat(_)
Concat(tokens) ==
  IF tokens = <<>> THEN "" ELSE Head(tokens) \o Concat(Tail(tokens))

\* parts.join('/')
RECURSIVE JoinSlash(_)
JoinSlash(parts) ==
  IF parts = <<>> THEN ""
  ELSE IF Len(parts) = 1 THEN Head(parts)
  ELSE Head(parts) \o "/" \o JoinSlash(Tail(parts))

\* The parts with a final index segment kept.
keepIndex(parts) == parts

\* if (parts[parts.length - 1] === 'index') parts.pop()
popIndex(parts) ==
  IF parts # <<>> /\ parts[Len(parts)] = "index"
  THEN SubSeq(parts, 1, Len(parts) - 1)
  ELSE parts

\* getProjectRootFromPackageJson: path.dirname(packageJsonPath)
getProjectRootFromPackageJson(packageJson) == packageJson.dir

\* A message that does not name the file.
NoPackageJsonUnnamed(filename) == <<"No package.json was found">>

\* The message of the error getComponentCode throws.
NoPackageJson(filename) == <<"No package.json was found for ", filename>>

\* getComponentCode(filename, identifierName, isDefaultExport) on the files of d:
\* the outcome, an error or the resource id.
getComponentCode(d, filename, identifierName, isDefaultExport) ==
  LET packageJson == findUp(d, "package.json", filename.dir)
  IN IF ~packageJson.found
     THEN [NoComponentCode EXCEPT !.filename = filename,
                                  !.identifierName = identifierName,
                                  !.isDefaultExport = isDefaultExport,
                                  !.threw = TRUE, !.message = NoPackageJson(filename)]
     ELSE LET tsconfig == findUp(d, "tsconfig.json", filename.dir)
              packageName == getPackageName(d, packageJson.dir)
              baseUrl == getBaseUrl(d, tsconfig)
              projectRoot == getProjectRootFromPackageJson(packageJson)
              relativePath == relativePathWithoutBaseUrl(filename, projectRoot, baseUrl)
              parts == popIndex(relativePath \o <<Concat(removeExtension(filename.name))>>)
              relativePathNoExt == JoinSlash(parts)
          IN [NoComponentCode EXCEPT
                !.filename = filename,
                !.identifierName = identifierName,
                !.isDefaultExport = isDefaultExport,
                !.code = IF isDefaultExport
                         THEN packageName \o "/" \o relativePathNoExt
                         ELSE packageName \o "/" \o relativePathNoExt \o ":" \o identifierName]

\* One call of getComponentCode.
GetComponentCode(filename, identifierName, isDefaultExport) ==
  /\ componentCode' = getComponentCode(disk, filename, identifierName, isDefaultExport)
  /\ UNCHANGED << engineVars, setupVars, rewriter, disk, pluginizedComponents, source, result, dependencies >>

\* The engine side while modules are built: nothing is registered or composed.
EngineIdle ==
  /\ NODE_ENV = "production"
  /\ workspace = WorkspaceOrder
  /\ plugins = [r \in ResourceIds |-> <<>>]
  /\ fcPlugins = [r \in ResourceIds |-> <<>>]
  /\ fnPlugins = [r \in ResourceIds |-> <<>>]
  /\ valPlugins = [r \in ResourceIds |-> <<>>]
  /\ pluginsCache = [r \in {} |-> <<>>]
  /\ exported = NoExport
  /\ calls = NoCalls
  /\ errors = <<>>
  /\ last = Op("init", "", "")

\* The resolver alone: getComponentCode called for any file and export on any
\* of the disks.
InitResolve ==
  /\ EngineIdle
  /\ SetupIdle
  /\ rewriter = "pluginizr.ts"
  /\ disk \in Disks
  /\ pluginizedComponents = {}
  /\ source = NoSource
  /\ result = NoResult
  /\ dependencies = <<>>
  /\ componentCode = NoComponentCode

NextResolve ==
  \E filename \in Files, identifierName \in Identifiers, isDefaultExport \in BOOLEAN :
    GetComponentCode(filename, identifierName, isDefaultExport)

SpecResolve == InitResolve /\ [][NextResolve]_vars

\* ------------------------------------------------------------- findUp, step by step
\* A loop condition that never sees the root.
neverRoot(dir) == dir # dir

\* dir === path.parse(dir).root
isRoot(dir) == dir = <<>>

\* The directories a walk starts from: path.dirname of an absolute path, at
\* any depth.
StartDirs == UNION { { SubSeq(f.dir, 1, n) : n \in 0..Len(f.dir) } : f \in Files }

\* findUp(filename, startDir) entered: let dir = startDir
FindUpStart(filename, startDir) ==
  /\ walk.status # "walking"
  /\ walk' = [filename |-> filename, startDir |-> startDir, dir |-> startDir,
              visited |-> {}, status |-> "walking"]
  /\ UNCHANGED << engineVars, loaderVars, pluginsDir, generatedDir >>

\* One test of the while condition and, when it holds, one pass through the
\* body: the candidate exists and is returned, or dir becomes its parent.
\* When the condition fails the function returns null.
FindUpIterate ==
  /\ walk.status = "walking"
  /\ walk' = IF isRoot(walk.dir) THEN [walk EXCEPT !.status = "null"]
             ELSE IF existsSync(disk, walk.dir, walk.filename)
             THEN [walk EXCEPT !.status = "found", !.visited = @ \cup {walk.dir}]
             ELSE [walk EXCEPT !.dir = dirname(@), !.visited = @ \cup {walk.dir}]
  /\ UNCHANGED << engineVars, loaderVars, pluginsDir, generatedDir >>

InitFindUp ==
  /\ EngineIdle
  /\ SetupIdle
  /\ rewriter = "pluginizr.ts"
  /\ disk \in Disks
  /\ pluginizedComponents = {}
  /\ source = NoSource
  /\ result = NoResult
  /\ dependencies = <<>>
  /\ componentCode = NoComponentCode

NextFindUp ==
  \/ \E filename \in {"package.json", "tsconfig.json"}, startDir \in StartDirs :
       FindUpStart(filename, startDir)
  \/ FindUpIterate

SpecFindUp == InitFindUp /\ [][NextFindUp]_vars

\* The walk is synchronous code of one thread: once entered, the loop keeps
\* running.
SpecFindUpLive == SpecFindUp /\ WF_vars(FindUpIterate)

\* ------------------------------------------------------------- syntax trees
\* The nodes of a parsed module (@babel/types), as far as the rewriter tells
\* them apart.
Null == [type |-> "null"]
Id(name) == [type |-> "Identifier", name |-> name]
NumericLiteral(value) == [type |-> "NumericLiteral", value |-> value]
CallExpression(callee, arguments) ==
  [type |-> "CallExpression", callee |-> callee, arguments |-> arguments]
MemberExpression(object, property) ==
  [type |-> "MemberExpression", object |-> object, property |-> property]

\* A function body: an expression (arrow functions only) or a block.
ExpressionBody(code) == [type |-> "Expression", body |-> <<code>>]
ReturnStatement(argument) == [type |-> "ReturnStatement", argument |-> argument]
ExpressionStatement(code) == [type |-> "ExpressionStatement", argument |-> code]
BlockStatement(body) == [type |-> "BlockStatement", body |-> body]

\* A function node.  jsx tells where its body holds a JSX element or fragment:
\* "none", "expression" (the expression body), "returned" (in a return
\* statement) or "nested" (inside a function nested in the body only).
FunctionNode(type, id, params, body, async, generator, jsx) ==
  [type |-> type, id |-> id, params |-> params, body |-> body,
   async |-> async, generator |-> generator, jsx |-> jsx]

FunctionTypes == {"ArrowFunctionExpression", "FunctionExpression", "FunctionDeclaration"}

\* t.arrowFunctionExpression(params, body, async)
arrowFunctionExpression(params, body, async, jsx) ==
  FunctionNode("ArrowFunctionExpression", "", params, body, async, FALSE, jsx)

\* t.functionExpression(id, params, body, generator, async)
functionExpression(id, params, body, generator, async, jsx) ==
  FunctionNode("FunctionExpression", id, params, body, async, generator, jsx)

\* Patterns of a destructuring declaration.
Property(key, value) == [key |-> key, value |-> value]
ObjectPattern(properties) == [type |-> "ObjectPattern", properties |-> properties]
ArrayPattern(elements) == [type |-> "ArrayPattern", elements |-> elements]

\* Statements.
VariableDeclarator(id, init) == [id |-> id, init |-> init]
VariableDeclaration(kind, declarations) ==
  [type |-> "VariableDeclaration", kind |-> kind, declarations |-> declarations]
ExportSpecifier(local, exportedName) == [local |-> local, exported |-> exportedName]
ExportNamedDeclaration(declaration, specifiers) ==
  [type |-> "ExportNamedDeclaration", declaration |-> declaration, specifiers |-> specifiers]
ExportDefaultDeclaration(declaration) ==
  [type |-> "ExportDefaultDeclaration", declaration |-> declaration]
ImportDeclaration(default, specifiers, from) ==
  [type |-> "ImportDeclaration", default |-> default, specifiers |-> specifiers,
   source |-> from]
TSInterfaceDeclaration(id) == [type |-> "TSInterfaceDeclaration", id |-> id]

\* The tokens of a source text that are not statements: a directive, white
\* space, and text the parser rejects.
Directive(value) == [type |-> "Directive", value |-> value]
Blank == [type |-> "Blank"]
Unparsable == [type |-> "Unparsable"]

\* ------------------------------------------------------------- get-plugin-hash
\* getPluginHash: "plugin_" and the first 8 hex digits of the sha256 of the
\* resource id, for the resource ids of the package acme and for one text
\* that is no resource id.
getPluginHash(module) ==
  CASE module = "acme/components/header" -> "plugin_a6f22960"
    [] module = "acme/components/header:Header" -> "plugin_bf099fe6"
    [] module = "acme/components/header:helper" -> "plugin_290cf5ba"
    [] module = "acme/" -> "plugin_70f45eff"
    [] module = "acme/:Header" -> "plugin_595fcff2"
    [] module = "acme/:helper" -> "plugin_6ff7ff7b"
    [] module = "acme/../packages/catalyst-pluginizr/src" -> "plugin_0289f40f"
    [] module = "acme/../packages/catalyst-pluginizr/src:Header" -> "plugin_2c205a03"
    [] module = "acme/../packages/catalyst-pluginizr/src:helper" -> "plugin_36c98485"
    [] module = "acme/../node_modules/dep" -> "plugin_f50977f3"
    [] module = "acme/../node_modules/dep:Header" -> "plugin_1ac176bf"
    [] module = "acme/../node_modules/dep:helper" -> "plugin_d99375e9"
    [] module = "acme/../lib/util" -> "plugin_14463aaf"
    [] module = "acme/../lib/util:Header" -> "plugin_57c2ff49"
    [] module = "acme/../lib/util:helper" -> "plugin_fd130854"
    [] module = "acme/types.d" -> "plugin_7dabdb78"
    [] module = "acme/types.d:Header" -> "plugin_88389a5e"
    [] module = "acme/types.d:helper" -> "plugin_08601775"
    [] module = "acme/components/header', name: 'promo" -> "plugin_a917ecea"

\* ------------------------------------------------------------- wrapExportedValue
\* isReactComponentFunction: the traversal sets hasJSX on a JSXElement or
\* JSXFragment anywhere below the function node.
isReactComponentFunction(funcNode) == funcNode.jsx # "none"

\* normalizeFunctionBody: an arrow function or function expression whose body
\* is not a block gets the block { return body; }.
normalizeFunctionBody(funcNode) ==
  IF funcNode.type \in {"ArrowFunctionExpression", "FunctionExpression"}
       /\ funcNode.body.type # "BlockStatement"
  THEN BlockStatement(<<ReturnStatement(funcNode.body.body[1])>>)
  ELSE funcNode.body

\* createPluginModuleImport: import <hash> from '<package>/generated/<hash>'
createPluginModuleImport(hash) ==
  ImportDeclaration(hash, <<>>, "@thebigrick/catalyst-pluginizr/generated/" \o hash)

\* The call expression that replaces the exported node (lines 277-303).
WrapNode(node, identifier) ==
  IF node.type \in FunctionTypes
  THEN LET body == normalizeFunctionBody(node)
           wrapperName == IF isReactComponentFunction(node)
                          THEN "withComponentPlugins" ELSE "withFunctionPlugins"
           wrappedFn == IF node.type = "ArrowFunctionExpression"
                        THEN arrowFunctionExpression(node.params, body, node.async, node.jsx)
                        ELSE functionExpression("", node.params, body, node.generator,
                                                node.async, node.jsx)
       IN CallExpression(wrapperName, <<identifier, wrappedFn>>)
  ELSE CallExpression("withValuePlugins", <<identifier, node>>)

\* The aggregator file of a resource id.
PluginFile(code) == "generated/" \o getPluginHash(code) \o ".ts"

\* The loader calls of one wrapExportedValue call.
AddDependencies(pluginFile) ==
  << [call |-> "addDependency", file |-> pluginFile],
     [call |-> "addMissingDependency", file |-> pluginFile] >>

\* The dependency calls made only for an export that has extensions.
AddDependenciesIfPluginized(code, pluginized) ==
  IF code \in pluginized THEN AddDependencies(PluginFile(code)) ELSE <<>>

\* The dependency calls wrapExportedValue makes for the resource id it resolved.
AddDependenciesAlways(code, pluginized) == AddDependencies(PluginFile(code))

\* The rewriter's context: the revision, the disk, the pluginized resource ids,
\* the file of the module.
Context(rev, d, pluginized, filename) ==
  [rewriter |-> rev, disk |-> d, pluginizedComponents |-> pluginized, filename |-> filename]

\* Lines 261-303, cc what getComponentCode returned: threw when it threw; else
\* the dependency calls and, when the resource id has extensions, the
\* replacement node and the import.
wrapWithPlugins(ctx, node, cc) ==
  IF cc.threw
  THEN [threw |-> TRUE, componentCode |-> cc, dependencies |-> <<>>,
        wrapped |-> FALSE, node |-> Null, importDecl |-> Null]
  ELSE IF cc.code \notin ctx.pluginizedComponents
  THEN [threw |-> FALSE, componentCode |-> cc,
        dependencies |-> AddDependenciesAlways(cc.code, ctx.pluginizedComponents),
        wrapped |-> FALSE, node |-> Null, importDecl |-> Null]
  ELSE [threw |-> FALSE, componentCode |-> cc,
        dependencies |-> AddDependenciesAlways(cc.code, ctx.pluginizedComponents),
        wrapped |-> TRUE,
        node |-> WrapNode(node, Id(getPluginHash(cc.code))),
        importDecl |-> createPluginModuleImport(getPluginHash(cc.code))]

\* wrapExportedValue(node, identifierName, filename, isDefaultExport, loader)
wrapExportedValue(ctx, node, identifierName, isDefaultExport) ==
  wrapWithPlugins(ctx, node,
                  getComponentCode(ctx.disk, ctx.filename, identifierName, isDefaultExport))

\* ------------------------------------------------------------- the rewriter's pass
\* The program body during a pass: one slot per statement of the parsed module,
\* each slot the sequence of statements that stand in its place (insertBefore
\* adds in front of a slot's statement, remove empties a slot).  imports are
\* the import declarations added so far; componentCode is the outcome of the
\* last getComponentCode call.
Pass(slots) ==
  [slots |-> slots, imports |-> <<>>, isPluginized |-> FALSE, dependencies |-> <<>>,
   componentCode |-> NoComponentCode, threw |-> FALSE]

Last(seq) == seq[Len(seq)]
Front(seq) == SubSeq(seq, 1, Len(seq) - 1)

\* The pass after a wrapExportedValue call: its loader calls are made, and its
\* exception, if any, ends the pass.
Note(st, w) ==
  [st EXCEPT !.dependencies = @ \o w.dependencies,
             !.componentCode = w.componentCode,
             !.threw = w.threw]

\* pluginizr.ts puts an import at the front of the program at once
\* (ast.program.body.unshift); pluginizr.js collects it (imports.add).
AddImport(ctx, st, importDecl) ==
  IF ctx.rewriter = "pluginizr.ts"
  THEN [st EXCEPT !.imports = <<importDecl>> \o @, !.isPluginized = TRUE]
  ELSE [st EXCEPT !.imports = Append(@, importDecl), !.isPluginized = TRUE]

\* The declaration a statement holds: its own, or the one it exports.
Decl(stmt) ==
  IF stmt.type \in {"ExportNamedDeclaration", "ExportDefaultDeclaration"}
  THEN stmt.declaration ELSE stmt

\* The statement with the declaration it holds replaced.
SetDecl(stmt, declaration) ==
  IF stmt.type \in {"ExportNamedDeclaration", "ExportDefaultDeclaration"}
  THEN [stmt EXCEPT !.declaration = declaration]
  ELSE declaration

\* The statement with the init of its k-th declarator replaced.
SetInit(stmt, k, node) ==
  SetDecl(stmt, [Decl(stmt) EXCEPT !.declarations[k].init = node])

\* Does the id of a declarator bind the name?
PatternBinds(id, name) ==
  IF id.type = "Identifier" THEN id.name = name
  ELSE IF id.type = "ObjectPattern"
       THEN \E p \in 1..Len(id.properties) : id.properties[p].value = name
       ELSE \E e \in 1..Len(id.elements) : id.elements[e] = name

Positions(slots) ==
  UNION { { <<i, j>> : j \in 1..Len(slots[i]) } : i \in 1..Len(slots) }

NoBinding == [found |-> FALSE, i |-> 0, j |-> 0, k |-> 0, kind |-> "none"]

\* scope.getBinding(name) at program level: the variable declarator or the
\* function declaration that binds the name, with its place in the body.
getBinding(slots, name) ==
  LET declarators ==
        { loc \in Positions(slots) \X (1..3) :
            LET d == Decl(slots[loc[1][1]][loc[1][2]])
            IN /\ d.type = "VariableDeclaration"
               /\ loc[2] <= Len(d.declarations)
               /\ PatternBinds(d.declarations[loc[2]].id, name) }
      functions ==
        { pos \in Positions(slots) :
            LET d == Decl(slots[pos[1]][pos[2]])
            IN d.type = "FunctionDeclaration" /\ d.id = name }
  IN IF declarators # {}
     THEN LET loc == CHOOSE l \in declarators : TRUE
          IN [found |-> TRUE, i |-> loc[1][1], j |-> loc[1][2], k |-> loc[2],
              kind |-> "VariableDeclarator"]
     ELSE IF functions # {}
     THEN LET pos == CHOOSE l \in functions : TRUE
          IN [found |-> TRUE, i |-> pos[1], j |-> pos[2], k |-> 0,
              kind |-> "FunctionDeclaration"]
     ELSE NoBinding

\* The declarators of the variable declaration the statement of slot i exports.
Declarations(st, i) == Last(st.slots[i]).declaration.declarations

\* Lines 317-327 for the k-th declarator, w what wrapExportedValue returned:
\* the init is replaced and the import added when the value was wrapped.
replaceDeclaratorInit(ctx, st, i, k, w) ==
  IF w.threw \/ ~w.wrapped THEN Note(st, w)
  ELSE AddImport(ctx,
         [Note(st, w) EXCEPT !.slots[i][Len(st.slots[i])] = SetInit(@, k, w.node)],
         w.importDecl)

\* handleVariableDeclaration: the declarators of `export const a = ..., b = ...`
\* from the k-th on; one with an identifier id and an init is wrapped when its
\* resource id has extensions.
RECURSIVE handleVariableDeclaration(_, _, _, _)
handleVariableDeclaration(ctx, st, i, k) ==
  IF st.threw \/ k > Len(Declarations(st, i)) THEN st
  ELSE IF /\ Declarations(st, i)[k].id.type = "Identifier"
          /\ Declarations(st, i)[k].init.type # "null"
  THEN handleVariableDeclaration(
         ctx,
         replaceDeclaratorInit(ctx, st, i, k,
           wrapExportedValue(ctx, Declarations(st, i)[k].init,
                             Declarations(st, i)[k].id.name, FALSE)),
         i, k + 1)
  ELSE handleVariableDeclaration(ctx, st, i, k + 1)

\* The node a binding stands for: the init of the declarator, or the function
\* declaration.
BoundNode(slots, binding) ==
  IF binding.kind = "VariableDeclarator"
  THEN Decl(slots[binding.i][binding.j]).declarations[binding.k].init
  ELSE Decl(slots[binding.i][binding.j])

\* The binding's node replaced by what wrapExportedValue returned (w): the
\* init of a declarator, or a function declaration by `const name = ...`.
replaceBinding(ctx, st, name, binding, w) ==
  IF w.threw \/ ~w.wrapped THEN Note(st, w)
  ELSE IF binding.kind = "VariableDeclarator"
  THEN AddImport(ctx,
         [Note(st, w) EXCEPT !.slots[binding.i][binding.j] = SetInit(@, binding.k, w.node)],
         w.importDecl)
  ELSE AddImport(ctx,
         [Note(st, w) EXCEPT !.slots[binding.i][binding.j] =
            SetDecl(@, VariableDeclaration("const",
                         <<VariableDeclarator(Id(name), w.node)>>))],
         w.importDecl)

\* handleNamedReference once the binding is looked up.
wrapBinding(ctx, st, namedReference, funcName, isDefaultExport, binding) ==
  IF ~binding.found THEN st
  ELSE replaceBinding(ctx, st, namedReference, binding,
         wrapExportedValue(ctx, BoundNode(st.slots, binding), funcName, isDefaultExport))

\* handleNamedReference: `export default name` - the binding of the name is
\* wrapped where it is declared.
handleNamedReference(ctx, st, namedReference, funcName, isDefaultExport) ==
  wrapBinding(ctx, st, namedReference, funcName, isDefaultExport,
              getBinding(st.slots, namedReference))

\* The export statement of slot i replaced by what wrapExportedValue returned
\* (w): `export default ...`, or `export const name = ...` for a named function.
replaceExport(ctx, st, i, isDefaultExport, w) ==
  IF w.threw \/ ~w.wrapped THEN Note(st, w)
  ELSE IF isDefaultExport
  THEN AddImport(ctx,
         [Note(st, w) EXCEPT !.slots[i][Len(st.slots[i])] = ExportDefaultDeclaration(w.node)],
         w.importDecl)
  ELSE AddImport(ctx,
         [Note(st, w) EXCEPT !.slots[i][Len(st.slots[i])] =
            ExportNamedDeclaration(
              VariableDeclaration("const",
                <<VariableDeclarator(Id(Last(st.slots[i]).declaration.id), w.node)>>),
              <<>>)],
         w.importDecl)

\* handleDirectExport: the exported node itself is wrapped.
handleDirectExport(ctx, st, i, isDefaultExport) ==
  replaceExport(ctx, st, i, isDefaultExport,
    wrapExportedValue(ctx, Last(st.slots[i]).declaration,
                      IF isDefaultExport THEN "" ELSE Last(st.slots[i]).declaration.id,
                      isDefaultExport))

\* ------------------------------------------------------------- export { ... } (pluginizr.js)
\* findPropertyForName: the first property of an object pattern whose value or
\* key is the name; none (0) for an array pattern, which has no properties.
findPropertyForName(pattern, name) ==
  IF pattern.type # "ObjectPattern" THEN 0
  ELSE LET hits == { p \in 1..Len(pattern.properties) :
                       pattern.properties[p].value = name \/ pattern.properties[p].key = name }
       IN IF hits = {} THEN 0 ELSE CHOOSE p \in hits : \A q \in hits : p <= q

\* scope.generateUidIdentifier('temp')
generateUidIdentifier(slots) ==
  IF getBinding(slots, "_temp").found THEN "_temp2" ELSE "_temp"

\* One assignment of createDestructuredAssignments: `const name = temp.key`,
\* wrapped when wrapExportedValue (w) wrapped it; made holds the pass and the
\* assignments so far.
assign(made, name, memberExpr, w) ==
  IF w.threw THEN [st |-> Note(made.st, w), assignments |-> made.assignments]
  ELSE [st |-> IF w.wrapped
               THEN [Note(made.st, w) EXCEPT !.imports = Append(@, w.importDecl)]
               ELSE Note(made.st, w),
        assignments |->
          Append(made.assignments,
                 VariableDeclaration("const",
                   <<VariableDeclarator(Id(name), IF w.wrapped THEN w.node ELSE memberExpr)>>))]

\* createDestructuredAssignments: one assignment per exported specifier that
\* has a property in the pattern.
RECURSIVE createDestructuredAssignments(_, _, _, _, _)
createDestructuredAssignments(ctx, made, temp, pattern, items) ==
  IF made.st.threw \/ items = <<>> THEN made
  ELSE IF findPropertyForName(pattern, Head(items).local) = 0
  THEN createDestructuredAssignments(ctx, made, temp, pattern, Tail(items))
  ELSE createDestructuredAssignments(
         ctx,
         assign(made, Head(items).local,
                MemberExpression(temp,
                  pattern.properties[findPropertyForName(pattern, Head(items).local)].key),
                wrapExportedValue(
                  ctx,
                  MemberExpression(temp,
                    pattern.properties[findPropertyForName(pattern, Head(items).local)].key),
                  Head(items).local, FALSE)),
         temp, pattern, Tail(items))

\* Lines 405-415: `const temp = init` and the assignments are put before the
\* export statement (slot i) and the destructuring declaration is removed.
insertAssignments(st, i, binding, declaration, made) ==
  IF made.st.threw THEN made.st
  ELSE [made.st EXCEPT
          !.slots = [s \in 1..Len(st.slots) |->
                       IF s = i
                       THEN Front(st.slots[i]) \o <<declaration>> \o made.assignments
                              \o <<Last(st.slots[i])>>
                       ELSE IF s = binding.i
                       THEN SubSeq(st.slots[s], 1, binding.j - 1)
                              \o SubSeq(st.slots[s], binding.j + 1, Len(st.slots[s]))
                       ELSE st.slots[s]],
          !.isPluginized = TRUE]

\* handleDestructuredExport
handleDestructuredExport(ctx, st, i, binding, items) ==
  insertAssignments(
    st, i, binding,
    VariableDeclaration("const",
      <<VariableDeclarator(Id(generateUidIdentifier(st.slots)),
                           BoundNode(st.slots, binding))>>),
    createDestructuredAssignments(
      ctx, [st |-> st, assignments |-> <<>>], Id(generateUidIdentifier(st.slots)),
      Decl(st.slots[binding.i][binding.j]).declarations[binding.k].id, items))

\* One non-destructured specifier: the init of the variable declarator behind
\* it is wrapped under the exported name.
wrapIndirect(ctx, st, item, binding) ==
  IF binding.kind # "VariableDeclarator" THEN st
  ELSE replaceBinding(ctx, st, item.local, binding,
         wrapExportedValue(ctx, BoundNode(st.slots, binding), item.exported, FALSE))

\* The non-destructured items of one binding group.
RECURSIVE handleIndirectExports(_, _, _)
handleIndirectExports(ctx, st, items) ==
  IF st.threw \/ items = <<>> THEN st
  ELSE handleIndirectExports(
         ctx, wrapIndirect(ctx, st, Head(items), getBinding(st.slots, Head(items).local)),
         Tail(items))

\* The place of the declaration statement a specifier's binding belongs to
\* (binding.path.parentPath); every function declaration has the program, and
\* a specifier without a binding has none.
placeOf(specifier, binding) ==
  IF ~binding.found THEN <<-1, -1>>
  ELSE IF binding.kind = "VariableDeclarator" THEN <<binding.i, binding.j>> ELSE <<0, 0>>

GroupOf(slots, specifier) == placeOf(specifier, getBinding(slots, specifier.local))

\* One group of groupSpecifiersByBinding.
handleGroup(ctx, st, i, items, binding) ==
  IF /\ binding.kind = "VariableDeclarator"
     /\ Decl(st.slots[binding.i][binding.j]).declarations[binding.k].id.type
          \in {"ObjectPattern", "ArrayPattern"}
  THEN handleDestructuredExport(ctx, st, i, binding, items)
  ELSE handleIndirectExports(ctx, st, items)

\* The group of the first specifier is handled, then the other groups.
RECURSIVE handleGroups(_, _, _, _, _)
\* handleExport on `export { a, b }`: the specifiers grouped by binding, the
\* groups in the order of their first specifier.
handleSpecifiers(ctx, st, i, specifiers) ==
  IF st.threw \/ specifiers = <<>> THEN st
  ELSE handleGroups(ctx, st, i, specifiers, GroupOf(st.slots, Head(specifiers)))

handleGroups(ctx, st, i, specifiers, group) ==
  IF group = <<-1, -1>> THEN handleSpecifiers(ctx, st, i, Tail(specifiers))
  ELSE handleSpecifiers(
         ctx,
         handleGroup(ctx, st, i,
                     SelectSeq(specifiers, LAMBDA s : GroupOf(st.slots, s) = group),
                     getBinding(st.slots, Head(specifiers).local)),
         i,
         SelectSeq(specifiers, LAMBDA s : GroupOf(st.slots, s) # group))

\* ------------------------------------------------------------- handleExport
ExpressionTypes ==
  { "Identifier", "NumericLiteral", "CallExpression", "MemberExpression",
    "ArrowFunctionExpression", "FunctionExpression" }

\* handleExport on the export statement of slot i.
handleExport(ctx, st, i, isDefaultExport) ==
  LET decl == Last(st.slots[i])
  IN IF /\ ctx.rewriter = "pluginizr.js"
        /\ ~isDefaultExport
        /\ Len(decl.specifiers) > 0
        /\ decl.declaration.type = "null"
     THEN handleSpecifiers(ctx, st, i, decl.specifiers)
     ELSE IF decl.declaration.type = "null" THEN st
     ELSE IF decl.declaration.type = "VariableDeclaration"
     THEN handleVariableDeclaration(ctx, st, i, 1)
     ELSE IF decl.declaration.type \in {"FunctionDeclaration"} \cup ExpressionTypes
     THEN IF decl.declaration.type = "Identifier"
          THEN handleNamedReference(ctx, st, decl.declaration.name, "", isDefaultExport)
          ELSE handleDirectExport(ctx, st, i, isDefaultExport)
     ELSE st

\* traverse(ast, { ExportNamedDeclaration, ExportDefaultDeclaration }): the
\* export statements of the program, in order, from slot i on.
RECURSIVE traverse(_, _, _)
traverse(ctx, st, i) ==
  IF st.threw \/ i > Len(st.slots) THEN st
  ELSE LET decl == Last(st.slots[i])
       IN IF decl.type = "ExportNamedDeclaration"
          THEN traverse(ctx, handleExport(ctx, st, i, FALSE), i + 1)
          ELSE IF decl.type = "ExportDefaultDeclaration"
          THEN traverse(ctx, handleExport(ctx, st, i, TRUE), i + 1)
          ELSE traverse(ctx, st, i + 1)

\* ------------------------------------------------------------- pluginizr
EntryPoints == <<"withComponentPlugins", "withFunctionPlugins", "withValuePlugins">>
EnginePackage == "@thebigrick/catalyst-pluginizr"

\* The entry points some import declaration of the program imports from the
\* engine's package.
ImportedEntryPoints(statements) ==
  { name \in {EntryPoints[n] : n \in 1..Len(EntryPoints)} :
      \E s \in 1..Len(statements) :
        /\ statements[s].type = "ImportDeclaration"
        /\ statements[s].source = EnginePackage
        /\ \E x \in 1..Len(statements[s].specifiers) : statements[s].specifiers[x] = name }

RECURSIVE Flatten(_)
Flatten(slots) == IF slots = <<>> THEN <<>> ELSE Head(slots) \o Flatten(Tail(slots))

\* The program after the import of the entry points is added: pluginizr.ts
\* imports the missing ones, in front of everything; pluginizr.js imports all
\* three when one is missing, after the imports it collected.
WithEntryImport(ctx, st) ==
  LET body == Flatten(st.slots)
      imported == ImportedEntryPoints(st.imports \o body)
      missing == SelectSeq(EntryPoints, LAMBDA name : name \notin imported)
  IN IF missing = <<>> THEN st.imports \o body
     ELSE IF ctx.rewriter = "pluginizr.ts"
     THEN <<ImportDeclaration("", missing, EnginePackage)>> \o st.imports \o body
     ELSE st.imports \o <<ImportDeclaration("", EntryPoints, EnginePackage)>> \o body

IsTrivia(token) == token.type \in {"Directive", "Blank"}

\* parse(code): the statements of the text.
parse(code) == SelectSeq(code, LAMBDA token : ~IsTrivia(token))

\* The program body of a parsed module, one slot per statement.
Slots(body) == [i \in 1..Len(body) |-> <<body[i]>>]

\* parse throws on text it rejects: a syntax error, a name imported twice, an
\* export of a name the module does not declare.
ParseThrows(code) ==
  \/ \E n \in 1..Len(code) : code[n].type = "Unparsable"
  \/ \E n1, n2 \in 1..Len(code) :
       /\ n1 < n2
       /\ code[n1].type = "ImportDeclaration"
       /\ code[n2].type = "ImportDeclaration"
       /\ code[n1].default # ""
       /\ code[n1].default = code[n2].default
  \/ \E n \in 1..Len(code) :
       /\ code[n].type = "ExportNamedDeclaration"
       /\ \E k \in 1..Len(code[n].specifiers) :
            ~getBinding(Slots(parse(code)), code[n].specifiers[k].local).found

\* generate(ast): the directives, then the statements; blank space and layout
\* are the generator's own.
generate(code, statements) ==
  SelectSeq(code, LAMBDA token : token.type = "Directive") \o statements

\* What pluginizr returns or throws, with the loader calls it made.
Returned(threw, message, code, st) ==
  [threw |-> threw, message |-> message, code |-> code,
   isPluginized |-> st.isPluginized, dependencies |-> st.dependencies,
   componentCode |-> st.componentCode]

\* Lines 562-597, st the pass after the traversal: an exception leaves, an
\* unmodified module returns the input, a modified one is generated.
finish(ctx, code, st) ==
  IF st.threw THEN Returned(TRUE, st.componentCode.message, <<>>, st)
  ELSE IF ~st.isPluginized THEN Returned(FALSE, <<>>, code, st)
  ELSE Returned(FALSE, <<>>, generate(code, WithEntryImport(ctx, st)), st)

\* pluginizr(code, sourcePath, loader)
pluginizr(ctx, code) ==
  IF ParseThrows(code)
  THEN Returned(TRUE, <<"SyntaxError">>, <<>>, Pass(<<>>))
  ELSE finish(ctx, code, traverse(ctx, Pass(Slots(parse(code))), 1))

\* ------------------------------------------------------------- the loader
\* inputCode.search(/^['"]use\s*no-plugins['"]\s*;?\s*$/) !== -1: without the
\* m flag ^ and $ are the ends of the whole text, so the text is the directive
\* and white space after it, nothing else.
IsNoPluginsText(inputCode) ==
  /\ Len(inputCode) >= 1
  /\ inputCode[1] = Directive("use no-plugins")
  /\ \A n \in 2..Len(inputCode) : inputCode[n] = Blank

\* resourcePath.includes('/node_modules/')
InNodeModules(file) == \E n \in 1..Len(file.dir) : file.dir[n] = "node_modules"

\* resourcePath.endsWith('.d.ts')
IsDeclarationFile(file) ==
  /\ Len(file.name) >= 3
  /\ file.name[Len(file.name) - 1] = ".d"
  /\ file.name[Len(file.name)] = ".ts"

\* resourcePath.includes('/packages/catalyst-pluginizr/')
InPluginizrPackage(file) ==
  \E n \in 1..(Len(file.dir) - 1) :
    file.dir[n] = "packages" /\ file.dir[n + 1] = "catalyst-pluginizr"

\* The condition of lines 20-25.
Skips(file, inputCode) ==
  \/ IsNoPluginsText(inputCode)
  \/ InNodeModules(file)
  \/ IsDeclarationFile(file)
  \/ InPluginizrPackage(file)

\* One call of the loader's callback.
Callback(threw, message, code) == [threw |-> threw, message |-> message, code |-> code]

\* ------------------------------------------------------------- the modules
JsxArrow == arrowFunctionExpression(<<"props">>, ExpressionBody("<div/>"), FALSE, "expression")
PlainArrow == arrowFunctionExpression(<<"a", "b">>, ExpressionBody("a + b"), TRUE, "none")
NestedJsxArrow ==
  arrowFunctionExpression(<<>>, BlockStatement(<<ReturnStatement("() => <div/>")>>), FALSE, "nested")
HelperDeclaration ==
  FunctionNode("FunctionDeclaration", "helper", <<"a", "b">>,
               BlockStatement(<<ReturnStatement("a + b")>>), TRUE, FALSE, "none")
GeneratorDeclaration ==
  FunctionNode("FunctionDeclaration", "helper", <<"n">>,
               BlockStatement(<<ExpressionStatement("yield n")>>), FALSE, TRUE, "none")
HeaderDeclaration ==
  FunctionNode("FunctionDeclaration", "Header", <<"props">>,
               BlockStatement(<<ReturnStatement("<div/>")>>), FALSE, FALSE, "returned")
HelperExpression ==
  functionExpression("inner", <<"a">>, BlockStatement(<<ReturnStatement("a")>>), FALSE, FALSE, "none")

Const(name, init) == VariableDeclaration("const", <<VariableDeclarator(Id(name), init)>>)

\* const Header = (props) => <div/>; export default Header
SrcDefaultByName == << Const("Header", JsxArrow), ExportDefaultDeclaration(Id("Header")) >>
\* export const Header = (props) => <div/>
SrcNamedConst == << ExportNamedDeclaration(Const("Header", JsxArrow), <<>>) >>
\* export async function helper(a, b) { return a + b }
SrcNamedFunction == << ExportNamedDeclaration(HelperDeclaration, <<>>) >>
\* async function helper(a, b) { return a + b }; export default helper
SrcDefaultFunctionByName == << HelperDeclaration, ExportDefaultDeclaration(Id("helper")) >>
\* export function* helper(n) { yield n }
SrcGenerator == << ExportNamedDeclaration(GeneratorDeclaration, <<>>) >>
\* export default function Header(props) { return <div/> }
SrcDefaultFunction == << ExportDefaultDeclaration(HeaderDeclaration) >>
\* export default 5
SrcDefaultValue == << ExportDefaultDeclaration(NumericLiteral(5)) >>
\* export default async (a, b) => a + b
SrcDefaultArrow == << ExportDefaultDeclaration(PlainArrow) >>
\* export let helper = function inner(a) { return a }
SrcLet ==
  << ExportNamedDeclaration(
       VariableDeclaration("let", <<VariableDeclarator(Id("helper"), HelperExpression)>>), <<>>) >>
\* export const Header = (props) => <div/>, helper = 5
SrcTwoDeclarators ==
  << ExportNamedDeclaration(
       VariableDeclaration("const", << VariableDeclarator(Id("Header"), JsxArrow),
                                       VariableDeclarator(Id("helper"), NumericLiteral(5)) >>),
       <<>>) >>
\* export const helper = () => { return () => <div/> }
SrcNestedJsx == << ExportNamedDeclaration(Const("helper", NestedJsxArrow), <<>>) >>
\* export interface Header {}
SrcInterface == << ExportNamedDeclaration(TSInterfaceDeclaration("Header"), <<>>) >>
\* const { Header, helper, extra } = lib; export { Header }
SrcDestructured ==
  << VariableDeclaration("const",
       <<VariableDeclarator(ObjectPattern(<< Property("Header", "Header"),
                                             Property("helper", "helper"),
                                             Property("extra", "extra") >>),
                            Id("lib"))>>),
     ExportNamedDeclaration(Null, <<ExportSpecifier("Header", "Header")>>) >>
\* const [Header, helper] = lib; export { Header, helper }
SrcArrayDestructured ==
  << VariableDeclaration("const",
       <<VariableDeclarator(ArrayPattern(<<"Header", "helper">>), Id("lib"))>>),
     ExportNamedDeclaration(Null, << ExportSpecifier("Header", "Header"),
                                     ExportSpecifier("helper", "helper") >>) >>
\* const helper = async (a, b) => a + b; export { helper }
SrcIndirect ==
  << Const("helper", PlainArrow),
     ExportNamedDeclaration(Null, <<ExportSpecifier("helper", "helper")>>) >>
\* export const Header = (props) => <div/>; export default Header
SrcNamedAndDefault ==
  << ExportNamedDeclaration(Const("Header", JsxArrow), <<>>),
     ExportDefaultDeclaration(Id("Header")) >>
\* 'use no-plugins'
SrcDirectiveOnly == << Directive("use no-plugins"), Blank >>
\* 'use no-plugins'; export const Header = (props) => <div/>
SrcDirectiveThenCode ==
  << Directive("use no-plugins"), ExportNamedDeclaration(Const("Header", JsxArrow), <<>>) >>
\* a blank line, then 'use client'; export const Header = (props) => <div/>
SrcUseClient ==
  << Blank, Directive("use client"), ExportNamedDeclaration(Const("Header", JsxArrow), <<>>) >>
\* import { withValuePlugins } from '@thebigrick/catalyst-pluginizr'; export const helper = 5
SrcImportsEntryPoint ==
  << ImportDeclaration("", <<"withValuePlugins">>, "@thebigrick/catalyst-pluginizr"),
     ExportNamedDeclaration(Const("helper", NumericLiteral(5)), <<>>) >>
\* const helper = 5
SrcNoExport == << Const("helper", NumericLiteral(5)) >>
\* text the parser rejects
SrcUnparsable == << Unparsable >>

Sources ==
  { SrcDefaultByName, SrcNamedConst, SrcNamedFunction, SrcDefaultFunctionByName, SrcGenerator,
    SrcDefaultFunction, SrcDefaultValue, SrcDefaultArrow, SrcLet, SrcTwoDeclarators,
    SrcNestedJsx, SrcInterface, SrcDestructured, SrcArrayDestructured, SrcIndirect,
    SrcNamedAndDefault, SrcDirectiveOnly, SrcDirectiveThenCode, SrcUseClient,
    SrcImportsEntryPoint, SrcNoExport, SrcUnparsable }

\* The resource ids that have extensions (the keys getPluginizedComponents
\* returns): none, those of header's exports, one named export, the default.
PluginizedAll ==
  { "acme/components/header", "acme/components/header:Header",
    "acme/components/header:helper", "acme/:Header", "acme/../lib/util:helper" }
PluginizedSets ==
  { {}, PluginizedAll, {"acme/components/header:Header"}, {"acme/components/header"} }

\* ------------------------------------------------------------- loader actions
MaxPasses == 2

\* A loader that passes the source through when the rewriter threw.
returnedPassThrough(out) ==
  /\ result' =
       [callbacks |-> <<Callback(FALSE, <<>>, IF out.threw THEN source'.inputCode ELSE out.code)>>,
        rewritten |-> IF out.threw THEN "threw"
                      ELSE IF out.isPluginized THEN "rewritten" ELSE "unchanged",
        passes |-> IF out.threw THEN <<>> ELSE <<out.code>>]
  /\ dependencies' = out.dependencies
  /\ componentCode' = out.componentCode

\* A loader that calls the callback before the rewriter ran and again after it.
returnedTwice(out) ==
  /\ result' =
       [callbacks |-> << Callback(FALSE, <<>>, source'.inputCode),
                         Callback(out.threw, out.message, out.code) >>,
        rewritten |-> IF out.threw THEN "threw"
                      ELSE IF out.isPluginized THEN "rewritten" ELSE "unchanged",
        passes |-> IF out.threw THEN <<>> ELSE <<out.code>>]
  /\ dependencies' = out.dependencies
  /\ componentCode' = out.componentCode

\* The callback called with what pluginizr returned or threw (out).
returned(out) ==
  /\ result' =
       [callbacks |-> <<Callback(out.threw, out.message, out.code)>>,
        rewritten |-> IF out.threw THEN "threw"
                      ELSE IF out.isPluginized THEN "rewritten" ELSE "unchanged",
        passes |-> IF out.threw THEN <<>> ELSE <<out.code>>]
  /\ dependencies' = out.dependencies
  /\ componentCode' = out.componentCode

\* loader(inputCode) on resourcePath = file: the callback is called with the
\* input (skipped), with what pluginizr returned, or with what it threw.
Loader(file, inputCode) ==
  /\ result = NoResult
  /\ source' = [resourcePath |-> file, inputCode |-> inputCode]
  /\ IF Skips(file, inputCode)
     THEN /\ result' = [callbacks |-> <<Callback(FALSE, <<>>, inputCode)>>,
                        rewritten |-> "skipped", passes |-> <<>>]
          /\ UNCHANGED << dependencies, componentCode >>
     ELSE returned(pluginizr(Context(rewriter, disk, pluginizedComponents, file), inputCode))
  /\ UNCHANGED << engineVars, setupVars, rewriter, disk, pluginizedComponents >>

\* The text of one more pass (out) joins the passes.
repeated(out) ==
  /\ ~out.threw
  /\ result' = [result EXCEPT !.passes = Append(@, out.code)]
  /\ dependencies' = dependencies \o out.dependencies
  /\ componentCode' = out.componentCode

\* The rewriter run again on the text it returned for the same file.
Again ==
  /\ result.passes # <<>>
  /\ Len(result.passes) < MaxPasses
  /\ repeated(pluginizr(Context(rewriter, disk, pluginizedComponents, source.resourcePath),
                        Last(result.passes)))
  /\ UNCHANGED << engineVars, setupVars, rewriter, disk, pluginizedComponents, source >>

InitLoader ==
  /\ EngineIdle
  /\ SetupIdle
  /\ rewriter \in {"pluginizr.ts", "pluginizr.js"}
  /\ disk \in {DiskAcme, NoDisk, DiskRootOnly}
  /\ pluginizedComponents \in PluginizedSets
  /\ source = NoSource
  /\ result = NoResult
  /\ dependencies = <<>>
  /\ componentCode = NoComponentCode

NextLoader ==
  \/ \E file \in Files, inputCode \in Sources : Loader(file, inputCode)
  \/ Again

SpecLoader == InitLoader /\ [][NextLoader]_vars

\* ------------------------------------------------------------- get-pluginized-components
\* A plugin source file the glob **/plugins/*.{ts,tsx,js,jsx} finds: the name
\* in ../../package.json ("" when the file or the name is missing), the path
\* of the file below its plugins directory without the extension, the
\* resourceId of the descriptor the module exports ("" when it exports none),
\* and the text, as lines of tokens.
PluginSource(packageName, pluginPath, resourceId, content) ==
  [packageName |-> packageName, pluginPath |-> pluginPath, resourceId |-> resourceId,
   content |-> content]

Quotes == {"'", "\""}
Whitespace == {" "}

\* `  resourceId: '<id>',` on a line of its own, as the README writes it.
ResourceIdLine(id) == << " ", "resourceId:", " ", "'", id, "'", "," >>
NameLine(name) == << " ", "name:", " ", "'", name, "'", "," >>

\* export default componentPlugin({ name, resourceId, wrap }), one property a line
Descriptor(name, id) ==
  << <<"export default componentPlugin({">>, NameLine(name), ResourceIdLine(id),
     <<" ", "wrap,">>, <<"});">> >>

HeaderPromoTsx ==
  PluginSource("promo-pack", "header-promo", "acme/components/header:Header",
               Descriptor("header-promo", "acme/components/header:Header"))
HeaderTrackTsx ==
  PluginSource("promo-pack", "header-track", "acme/components/header:Header",
               Descriptor("header-track", "acme/components/header:Header"))
HelperLogTs ==
  PluginSource("util-pack", "helper-log", "acme/../lib/util:helper",
               Descriptor("helper-log", "acme/../lib/util:helper"))
HeaderDefaultTs ==
  PluginSource("util-pack", "header-default", "acme/components/header",
               Descriptor("header-default", "acme/components/header"))
\* a plugin of a package whose package.json has no name
UnnamedPackageTs ==
  PluginSource("", "header-extra", "acme/components/header:Header",
               Descriptor("header-extra", "acme/components/header:Header"))
\* a file of a plugins directory that declares no plugin
ThemeTs ==
  PluginSource("promo-pack", "theme", "", << <<"export const theme = ", "'", "dark", "'">> >>)
\* export default valuePlugin({ resourceId: 'acme/components/header', name: 'promo', wrap });
OneLineTs ==
  PluginSource("promo-pack", "one-line", "acme/components/header",
               << << "export default valuePlugin({ ", "resourceId:", " ", "'",
                     "acme/components/header", "'", ", name: ", "'", "promo", "'",
                     ", wrap });" >> >>)

\* glob.sync's result when every file exists.
GlobOrder ==
  << HeaderPromoTsx, HeaderTrackTsx, HelperLogTs, HeaderDefaultTs, UnnamedPackageTs,
     ThemeTs, OneLineTs >>

PluginSources == { GlobOrder[n] : n \in 1..Len(GlobOrder) }

\* /resourceId:\s*['"](?<package>.+)['"]/ on one line: after the first
\* `resourceId:` that whitespace and a quote follow, the group runs up to the
\* last quote of the line and holds one character at least.  "" for no match.
MatchInLine(line) ==
  LET starts == { i \in 1..Len(line) :
                    /\ line[i] = "resourceId:"
                    /\ \E j \in (i + 1)..Len(line) :
                         /\ line[j] \in Quotes
                         /\ \A s \in (i + 1)..(j - 1) : line[s] \in Whitespace
                         /\ \E k \in (j + 2)..Len(line) : line[k] \in Quotes }
  IN IF starts = {} THEN ""
     ELSE LET i == CHOOSE x \in starts : \A y \in starts : x <= y
              j == CHOOSE x \in (i + 1)..Len(line) :
                     line[x] \in Quotes /\ \A s \in (i + 1)..(x - 1) : line[s] \in Whitespace
              k == CHOOSE x \in (j + 2)..Len(line) :
                     line[x] \in Quotes /\ \A y \in (x + 1)..Len(line) : line[y] \notin Quotes
          IN Concat(SubSeq(line, j + 1, k - 1))

\* searchPackageRegex.exec(content): the group of the first line that matches.
RECURSIVE searchPackage(_)
searchPackage(content) ==
  IF content = <<>> THEN ""
  ELSE IF MatchInLine(Head(content)) # "" THEN MatchInLine(Head(content))
  ELSE searchPackage(Tail(content))

\* pluginId = `${packageName}/plugins/${pluginPath}`
pluginId(file) == file.packageName \o "/plugins/" \o file.pluginPath

\* getPluginizedComponents: for each resource id some plugin file names, the
\* hash and the plugin ids of those files, in glob order.  Files without a
\* package name or without a match are left out.
getPluginizedComponents(dir) ==
  LET pluginFiles == SelectSeq(GlobOrder,
                       LAMBDA file : /\ file \in dir
                                     /\ file.packageName # ""
                                     /\ searchPackage(file.content) # "")
      keys == { searchPackage(pluginFiles[n].content) : n \in 1..Len(pluginFiles) }
  IN [resourceId \in keys |->
        [hash |-> getPluginHash(resourceId),
         plugins |->
           LET own == SelectSeq(pluginFiles,
                                LAMBDA file : searchPackage(file.content) = resourceId)
           IN [n \in 1..Len(own) |-> pluginId(own[n])]]]

\* ------------------------------------------------------------- generate-plugin-proxies
StartsWith(f, prefix) == Len(f) >= Len(prefix) /\ SubSeq(f, 1, Len(prefix)) = prefix
EndsWith(f, suffix) ==
  Len(f) >= Len(suffix) /\ SubSeq(f, Len(f) - Len(suffix) + 1, Len(f)) = suffix

\* createProxyContent: `import plugin<index> from '<p>'` for each path and
\* `export default [plugin0, plugin1, ...]`, under a comment with the id.
createProxyContent(resourceId, pluginPaths) ==
  [comment |-> resourceId,
   imports |-> [n \in 1..Len(pluginPaths) |-> [local |-> n - 1, source |-> pluginPaths[n]]],
   default |-> [n \in 1..Len(pluginPaths) |-> n - 1]]

\* The entry a new file is written for.
EntryOf(components, f) == CHOOSE r \in DOMAIN components : components[r].hash \o ".ts" = f

\* generatePluginProxies on the generated directory: the directory is made
\* when it is missing, the plugin_*.ts files that are no new file are
\* unlinked, and one file is written for each entry.
generatePluginProxies(generated, components) ==
  LET existingPluginFiles == { f \in DOMAIN generated.files :
                                 EndsWith(f, ".ts") /\ StartsWith(f, "plugin_") }
      newFiles == { components[r].hash \o ".ts" : r \in DOMAIN components }
      kept == DOMAIN generated.files \ (existingPluginFiles \ newFiles)
  IN [exists |-> TRUE,
      files |-> [f \in kept \cup newFiles |->
                   IF f \in newFiles
                   THEN createProxyContent(EntryOf(components, f),
                                           components[EntryOf(components, f)].plugins)
                   ELSE generated.files[f]]]

GeneratePluginProxies ==
  /\ generatedDir' = generatePluginProxies(generatedDir, getPluginizedComponents(pluginsDir))
  /\ last' = Op("generatePluginProxies", "", "")
  /\ UNCHANGED << NODE_ENV, workspace, registryVars, pluginsCache, exported, calls, errors,
                  loaderVars, walk, pluginsDir >>

\* A plugin file is written below the plugins directory.
AddPluginFile(file) ==
  /\ file \notin pluginsDir
  /\ pluginsDir' = pluginsDir \cup {file}
  /\ last' = Op("add", "", file.pluginPath)
  /\ UNCHANGED << NODE_ENV, workspace, registryVars, pluginsCache, exported, calls, errors,
                  loaderVars, walk, generatedDir >>

\* A plugin file is deleted.
UnlinkPluginFile(file) ==
  /\ file \in pluginsDir
  /\ pluginsDir' = pluginsDir \ {file}
  /\ last' = Op("unlink", "", file.pluginPath)
  /\ UNCHANGED << NODE_ENV, workspace, registryVars, pluginsCache, exported, calls, errors,
                  loaderVars, walk, generatedDir >>

\* The generated directory before the first run: missing, or holding the
\* appdir directory of the appdir proxies.
InitialGeneratedDirs ==
  { NoGeneratedDir, [exists |-> TRUE, files |-> [f \in {"appdir"} |-> "directory"]] }

\* The most plugin files the workspace holds at once.
MaxPluginFiles == 3

InitProxies ==
  /\ EngineIdle
  /\ LoaderIdle
  /\ walk = NoWalk
  /\ pluginsDir = {}
  /\ generatedDir \in InitialGeneratedDirs

NextProxies ==
  \/ \E file \in PluginSources :
       Cardinality(pluginsDir) < MaxPluginFiles /\ AddPluginFile(file)
  \/ \E file \in PluginSources : UnlinkPluginFile(file)
  \/ GeneratePluginProxies

SpecProxies == InitProxies /\ [][NextProxies]_vars

\* ------------------------------------------------------------- helpers of the properties
Names(list) == [i \in 1..Len(list) |-> list[i].name]
Keys(list) == [i \in 1..Len(list) |-> SortKey(list[i])]
Occurs(list, plugin) == \E i \in 1..Len(list) : list[i] = plugin

\* ------------------------------------------------------------- C1
\* C1 (as claimed): for a resource id with zero registered extensions, both
\* withPluginsFC and withPluginsFn return the very object passed as the
\* original, and neither throws.
C1_ReturnsOriginal ==
  (last.op \in {"withPluginsFC", "withPluginsFn"} /\ plugins[last.resourceId] = <<>>)
    => (exported.ref = "original" /\ ~calls.threw)

\* C1 (amended): for a resource id with zero registered extensions,
\* withPluginsFC returns the very object passed as the original; withPluginsFn
\* returns a new function, and every invocation of that function invokes no
\* wrap, calls the original with the arguments it got and returns its result;
\* nothing throws.
C1_ZeroExtensions ==
  (last.resourceId \in ResourceIds /\ plugins[last.resourceId] = <<>>) =>
    /\ last.op = "withPluginsFC" =>
         (exported.kind = Component /\ exported.ref = "original"
            /\ exported.chain = <<>> /\ ~calls.threw)
    /\ last.op = "withPluginsFn" =>
         (exported.kind = Function /\ exported.ref = "wrapper" /\ ~calls.threw)
    /\ last.op \in {"callFn", "render"} =>
         (calls.wraps = <<>> /\ calls.original /\ calls.ret = last.arg /\ ~calls.threw)

\* C1 witness: withPluginsFC has just returned the original for a resource id
\* without extensions while the other resource id has some.
C1_Witness ==
  /\ last.op = "withPluginsFC"
  /\ plugins[last.resourceId] = <<>>
  /\ exported.ref = "original"
  /\ \E r \in ResourceIds : plugins[r] # <<>>

\* ------------------------------------------------------------- C2
\* C2: with the three component extensions of sortOrder -10, 0 and 10 registered
\* for one resource id, in any order, the composed component nests them
\* outer-to-inner as [-10, 0, 10]: on a render the wraps run in that order and
\* the original runs last.
C2_OuterToInner ==
  (workspace = WorkspaceOrder /\ exported.kind = Component
     /\ exported.resourceId = "r1" /\ Len(plugins["r1"]) = 3)
    => /\ Keys(exported.chain) = <<-10, 0, 10>>
       /\ last.op = "render" => (Keys(calls.wraps) = <<-10, 0, 10>> /\ calls.original)

C4_SuppressesHigher ==
  (last.op \in {"callFn", "render"} /\ calls.wraps # <<>> /\ ~calls.original) =>
    LET kind == IF last.op = "callFn" THEN Function ELSE Component
        stopper == calls.wraps[Len(calls.wraps)]
        registered == getPlugins(last.resourceId, kind)
    IN \A i \in 1..Len(registered) :
         /\ SortKey(registered[i]) > SortKey(stopper) => ~Occurs(calls.wraps, registered[i])
         /\ SortKey(registered[i]) < SortKey(stopper) => Occurs(calls.wraps, registered[i])

\* ------------------------------------------------------------- C5
\* The value a sequence of wraps gives when each receives the result of the
\* one before it and the first receives v.
RECURSIVE Threaded(_, _)
Threaded(wraps, v) ==
  IF wraps = <<>> THEN v
  ELSE Threaded(Tail(wraps), WrapValue(Head(wraps).wrap, v))

C6_ChainBuiltOnce ==
  exported.kind = Function => exported.builds <= 1

\* C6 (amended): withPluginsFn builds no chain when it composes; every
\* invocation of the composed function that finds at least one extension folds
\* the sorted list into a new chain of stage callables, so N such invocations
\* build N chains, and an invocation that finds none builds nothing.
C6_ChainBuiltPerCall ==
  [][ /\ last'.op = "withPluginsFn" => exported'.builds = 0
      /\ last'.op = "callFn" =>
           exported'.builds = exported.builds + (IF calls'.wraps # <<>> THEN 1 ELSE 0)
    ]_vars

\* C6 witness: one composed function has been invoked twice with an extension
\* registered and has built its chain twice.
C6_Witness ==
  /\ exported.kind = Function
  /\ exported.builds = 2
  /\ last.op = "callFn"
  /\ calls.wraps # <<>>

\* ------------------------------------------------------------- C7
\* The kind an operation requests from the registry.
KindOf(op) ==
  IF op \in {"withPluginsFC", "render"} THEN Component
  ELSE IF op \in {"withPluginsFn", "callFn"} THEN Function
  ELSE Value

\* The position of a descriptor in a list (0 when it is not there).
IndexIn(list, plugin) ==
  IF Occurs(list, plugin) THEN CHOOSE i \in 1..Len(list) : list[i] = plugin ELSE 0

AppendedTo(old, new, r) ==
  /\ Len(new[r]) = Len(old[r]) + 1
  /\ SubSeq(new[r], 1, Len(old[r])) = old[r]
  /\ new[r][Len(new[r])].resourceId = r
  /\ \A q \in ResourceIds \ {r} : new[q] = old[q]

\* C8: a register call appends its descriptor at the end of the list of the
\* descriptor's resource id and leaves the lists of all other resource ids as
\* they were; no other operation changes any list, so nothing is ever removed
\* or reordered and each list holds its descriptors in registration order.
C8_RegisterAppends ==
  [][ /\ last'.op = "register" =>
           /\ AppendedTo(plugins, plugins', last'.resourceId)
           /\ plugins'[last'.resourceId][Len(plugins'[last'.resourceId])].name = last'.arg
           /\ \/ AppendedTo(fcPlugins, fcPlugins', last'.resourceId)
                   /\ UNCHANGED << fnPlugins, valPlugins >>
              \/ AppendedTo(fnPlugins, fnPlugins', last'.resourceId)
                   /\ UNCHANGED << fcPlugins, valPlugins >>
              \/ AppendedTo(valPlugins, valPlugins', last'.resourceId)
                   /\ UNCHANGED << fcPlugins, fnPlugins >>
      /\ last'.op # "register" => UNCHANGED registryVars
    ]_vars

\* C8 witness: a registration has just appended to a list that already held a
\* descriptor, while the other resource id has a list of its own.
C8_Witness ==
  /\ last.op = "register"
  /\ Len(plugins[last.resourceId]) >= 2
  /\ \E q \in ResourceIds \ {last.resourceId} : plugins[q] # <<>>

\* ------------------------------------------------------------- C9
\* The descriptors of one kind in a list, in the order of the list.
OfKind(list, t) == SelectSeq(list, LAMBDA plugin : plugin.type = t)

\* C9 (as claimed): once a composition call has been issued the registry is
\* read-only: no later step changes any list of the registry.
C9_FrozenAfterCompose ==
  [][ ComposeIssued => plugins' = plugins ]_vars

\* C9 (amended): nothing makes the registry read-only.  A register call issued
\* after a composition call still appends its descriptor, and from then on
\* getPlugins returns it, last, for its resource id and kind; the composition
\* calls themselves never change the registry.
C9_RegisterAfterCompose ==
  [][ ComposeIssued =>
        /\ last'.op = "register" =>
             /\ AppendedTo(plugins, plugins', last'.resourceId)
             /\ \E t \in EPluginType :
                  LET before == OfKind(plugins[last'.resourceId], t)
                      after == OfKind(plugins'[last'.resourceId], t)
                  IN /\ Len(after) = Len(before) + 1
                     /\ SubSeq(after, 1, Len(before)) = before
                     /\ after[Len(after)].name = last'.arg
        /\ last'.op # "register" => plugins' = plugins
    ]_vars

\* C9 witness: a descriptor has been registered after a composition call.
C9_Witness ==
  /\ last.op = "register"
  /\ ComposeIssued

\* ------------------------------------------------------------- C10
\* C10: the sorted list is cached per (resourceId, kind): every list
\* getSortedPlugins returns (the list the cache holds for the resource id once
\* it has returned) contains only descriptors of the kind that was requested.
C10_CachePerKind ==
  (last.op \in {"withPluginsFC", "callFn", "withPluginsVal"}
     /\ last.resourceId \in DOMAIN pluginsCache) =>
    \A i \in 1..Len(pluginsCache[last.resourceId]) :
      pluginsCache[last.resourceId][i].type = KindOf(last.op)

\* ------------------------------------------------------------- C11
\* The sortOrder a descriptor is ordered by: its own, or 0 when it has none.
OrderOf(plugin) ==
  IF plugin.sortOrder = NoSortOrder THEN 0 ELSE plugin.sortOrder[1]

\* Is list a rearrangement of the descriptors of other (descriptors are
\* registered once, so the lists hold no duplicates)?
IsPermutation(list, other) ==
  /\ Len(list) = Len(other)
  /\ \A i \in 1..Len(other) : Occurs(list, other[i])
  /\ \A i \in 1..Len(list) : Occurs(other, list[i])

AcmeRelativePath(file) ==
  CASE file = HeaderTsx -> "components/header"
    [] file = HeaderTs -> "components/header"
    [] file = HeaderIndexTsx -> "components/header"
    [] file = SrcIndexTs -> ""
    [] file = TypesDTs -> "types.d"
    [] file = LibUtilJs -> "../lib/util"
    [] file = DepIndexJs -> "../node_modules/dep"
    [] file = EngineIndexTs -> "../packages/catalyst-pluginizr/src"

\* C12: the resource id getComponentCode returns is the package name, "/", the
\* file's path relative to the package root joined with the base import root
\* (extension stripped, final index dropped), then ":" and the export name for
\* a named export and nothing for a default export.
C12_ResourceIdFormat ==
  (/\ componentCode # NoComponentCode
   /\ ~componentCode.threw
   /\ disk = DiskAcme)
  => componentCode.code =
       "acme/" \o AcmeRelativePath(componentCode.filename)
         \o (IF componentCode.isDefaultExport THEN ""
             ELSE ":" \o componentCode.identifierName)

\* C12 witness: /pkg-root/src/components/header/index.tsx resolved for its
\* default export gives acme/components/header.
C12_Witness ==
  /\ disk = DiskAcme
  /\ componentCode.filename = HeaderIndexTsx
  /\ componentCode.isDefaultExport
  /\ componentCode.code = "acme/components/header"

\* ------------------------------------------------------------- C14
\* The (file, export name, is-default) triple of a resolution; a default
\* export has no export name.
Triple(filename, identifierName, isDefaultExport) ==
  << filename, IF isDefaultExport THEN "" ELSE identifierName, isDefaultExport >>

\* C14: two distinct (source file, export name, is-default) triples never
\* resolve to the same resource id.
C14_UniqueResourceId ==
  (componentCode # NoComponentCode /\ ~componentCode.threw)
  => \A filename \in Files, identifierName \in Identifiers, isDefaultExport \in BOOLEAN :
       (/\ Triple(filename, identifierName, isDefaultExport)
             # Triple(componentCode.filename, componentCode.identifierName,
                      componentCode.isDefaultExport)
        /\ ~getComponentCode(disk, filename, identifierName, isDefaultExport).threw)
       => getComponentCode(disk, filename, identifierName, isDefaultExport).code
            # componentCode.code

\* ------------------------------------------------------------- C13
\* No directory from the file's directory up to the root holds a package.json.
NoPackageJsonUpward(d, file) ==
  ~\E p \in d.packageJson :
     /\ Len(p.dir) <= Len(file.dir)
     /\ SubSeq(file.dir, 1, Len(p.dir)) = p.dir

\* C13: when no package.json exists from the module's directory upward, the
\* resolution of a resource id throws "No package.json was found for <file>"
\* and the rewrite ends with that error: the callback gets the error and no
\* text.
C13_NoPackageJsonAborts ==
  (/\ componentCode # NoComponentCode
   /\ result.rewritten # "none"
   /\ NoPackageJsonUpward(disk, source.resourcePath))
  => /\ componentCode.threw
     /\ componentCode.message = <<"No package.json was found for ", source.resourcePath>>
     /\ result.rewritten = "threw"
     /\ result.callbacks =
          <<Callback(TRUE, <<"No package.json was found for ", source.resourcePath>>, <<>>)>>

\* C13 witness: export const Header = ... in /pkg-root/src/components/header.tsx
\* on a disk without any package.json; the loader's callback got the error.
C13_Witness ==
  /\ disk = NoDisk
  /\ source = [resourcePath |-> HeaderTsx, inputCode |-> SrcNamedConst]
  /\ result.rewritten = "threw"
  /\ Len(result.callbacks) = 1
  /\ result.callbacks[1].threw
  /\ result.callbacks[1].message = <<"No package.json was found for ", HeaderTsx>>

\* ------------------------------------------------------------- C15
\* C15: the rewriter run on its own output returns that output:
\* rewrite(rewrite(x)) = rewrite(x).
C15_Idempotent ==
  Len(result.passes) = 2 => result.passes[2] = result.passes[1]

\* ------------------------------------------------------------- C16
\* The module's first statement is the directive "use no-plugins".
BeginsWithOptOut(inputCode) ==
  \E n \in 1..Len(inputCode) :
    /\ inputCode[n] = Directive("use no-plugins")
    /\ \A k \in 1..(n - 1) : inputCode[k] = Blank

\* C16: the loader returns the source text unchanged, without calling the
\* rewriter, for a module under node_modules, a .d.ts file, a module of the
\* pluginizr package, and a module whose first statement is "use no-plugins",
\* whatever follows the directive.
C16_SkipsIneligible ==
  (/\ result.rewritten # "none"
   /\ \/ InNodeModules(source.resourcePath)
      \/ IsDeclarationFile(source.resourcePath)
      \/ InPluginizrPackage(source.resourcePath)
      \/ BeginsWithOptOut(source.inputCode))
  => /\ result.rewritten = "skipped"
     /\ result.callbacks = <<Callback(FALSE, <<>>, source.inputCode)>>
     /\ dependencies = <<>>

\* ------------------------------------------------------------- C17
\* The declarators of the `export const ...` statements of a text.
ExportedDeclarators(code) ==
  UNION { { code[n].declaration.declarations[k] :
              k \in 1..Len(code[n].declaration.declarations) } :
          n \in { x \in 1..Len(code) :
                    /\ code[x].type = "ExportNamedDeclaration"
                    /\ code[x].declaration.type = "VariableDeclaration" } }

\* The names the text imports as default imports.
DefaultImports(code) ==
  { code[n].default : n \in { x \in 1..Len(code) : code[x].type = "ImportDeclaration" } }

\* The text the loader's callback got.
Output == result.callbacks[1].code

\* C17: a module none of whose exports has extensions is returned as the same
\* text; and where only some exports have extensions, an exported declarator
\* without extensions keeps its initializer and gets no aggregator import.
C17_UntouchedWithoutExtensions ==
  (result.rewritten \in {"unchanged", "rewritten"})
  => /\ pluginizedComponents = {} => Output = source.inputCode
     /\ \A d \in ExportedDeclarators(source.inputCode) :
          (/\ d.id.type = "Identifier"
           /\ getComponentCode(disk, source.resourcePath, d.id.name, FALSE).code
                \notin pluginizedComponents)
          => /\ d \in ExportedDeclarators(Output)
             /\ getPluginHash(getComponentCode(disk, source.resourcePath, d.id.name, FALSE).code)
                  \notin DefaultImports(Output)

\* ------------------------------------------------------------- C18
\* The entry point the claim gives an expression.
EntryPointFor(node) ==
  IF node.type \in FunctionTypes
  THEN IF node.jsx # "none" THEN "withComponentPlugins" ELSE "withFunctionPlugins"
  ELSE "withValuePlugins"

\* The exports of a text whose value is an expression of the text: the name
\* bound in the module ("" for a default export that is an expression), the
\* exported name, the expression, and the form of the export.
Export(local, exportedName, isDefaultExport, node, via) ==
  [local |-> local, exported |-> exportedName, isDefaultExport |-> isDefaultExport,
   node |-> node, via |-> via]

ExportsOf(code) ==
  LET slots == Slots(parse(code))
      at == { n \in 1..Len(code) : code[n].type = "ExportNamedDeclaration" }
      dflt == { n \in 1..Len(code) : code[n].type = "ExportDefaultDeclaration" }
  IN UNION {
       { Export(d.id.name, d.id.name, FALSE, d.init, "declaration") :
           d \in { x \in ExportedDeclarators(code) : x.id.type = "Identifier" } },
       { Export(code[n].declaration.id, code[n].declaration.id, FALSE, code[n].declaration,
                "declaration") :
           n \in { x \in at : code[x].declaration.type = "FunctionDeclaration" } },
       UNION { { Export(code[n].specifiers[k].local, code[n].specifiers[k].exported, FALSE,
                        BoundNode(slots, getBinding(slots, code[n].specifiers[k].local)),
                        "specifier") :
                   k \in { y \in 1..Len(code[n].specifiers) :
                             LET b == getBinding(slots, code[n].specifiers[y].local)
                             IN /\ b.kind = "VariableDeclarator"
                                /\ Decl(slots[b.i][b.j]).declarations[b.k].id.type
                                     = "Identifier" } } :
               n \in at },
       { Export(code[n].declaration.name, "", TRUE,
                BoundNode(slots, getBinding(slots, code[n].declaration.name)), "default") :
           n \in { x \in dflt : /\ code[x].declaration.type = "Identifier"
                                /\ getBinding(slots, code[x].declaration.name).found } },
       { Export("", "", TRUE, code[n].declaration, "default") :
           n \in { x \in dflt : code[x].declaration.type # "Identifier" } } }

\* What stands in the output where the export's expression stood.
OutputNode(e) ==
  LET slots == Slots(parse(Output))
  IN IF e.local # ""
     THEN IF getBinding(slots, e.local).kind = "VariableDeclarator"
          THEN BoundNode(slots, getBinding(slots, e.local))
          ELSE Null
     ELSE LET dflt == { n \in 1..Len(Output) : Output[n].type = "ExportDefaultDeclaration" }
          IN IF dflt = {} THEN Null ELSE Output[CHOOSE n \in dflt : TRUE].declaration

IsCallOf(node, hash) ==
  /\ node.type = "CallExpression"
  /\ node.arguments[1] = Id(hash)

\* The composition call of the aggregator `hash` at the node or directly
\* inside the call at the node; Null when there is none.
CallOf(node, hash) ==
  IF IsCallOf(node, hash) THEN node
  ELSE IF node.type = "CallExpression" /\ IsCallOf(node.arguments[2], hash)
  THEN node.arguments[2]
  ELSE Null

\* C18: the entry point of an instrumented export is the one of its
\* expression: withComponentPlugins for a function with JSX anywhere in its
\* body, withFunctionPlugins for a function without JSX, withValuePlugins for
\* every other expression.
C18_EntryPointByExpression ==
  (result.rewritten = "rewritten")
  => \A e \in ExportsOf(source.inputCode) :
       LET cc == getComponentCode(disk, source.resourcePath, e.exported, e.isDefaultExport)
       IN (/\ cc.code \in pluginizedComponents
           /\ CallOf(OutputNode(e), getPluginHash(cc.code)) # Null)
          => CallOf(OutputNode(e), getPluginHash(cc.code)).callee = EntryPointFor(e.node)

\* ------------------------------------------------------------- C19
\* The function the composition call holds mirrors the original function.
Mirrors(original, wrappedFn) ==
  /\ wrappedFn.type = IF original.type = "ArrowFunctionExpression"
                      THEN "ArrowFunctionExpression" ELSE "FunctionExpression"
  /\ wrappedFn.id = ""
  /\ wrappedFn.params = original.params
  /\ wrappedFn.async = original.async
  /\ wrappedFn.generator = original.generator
  /\ wrappedFn.body = IF original.body.type = "BlockStatement"
                      THEN original.body
                      ELSE BlockStatement(<<ReturnStatement(original.body.body[1])>>)

\* Some const declaration of the text binds the name to a composition call of
\* the aggregator.
ConstBinds(code, name, hash) ==
  \E n \in 1..Len(code) :
    /\ Decl(code[n]).type = "VariableDeclaration"
    /\ Decl(code[n]).kind = "const"
    /\ \E k \in 1..Len(Decl(code[n]).declarations) :
         /\ Decl(code[n]).declarations[k].id = Id(name)
         /\ CallOf(Decl(code[n]).declarations[k].init, hash) # Null

\* C19: the wrapped callable mirrors the original: an arrow function stays an
\* arrow function, a function declaration or expression becomes an anonymous
\* function expression, the parameters and the async and generator flags are
\* kept, an expression body becomes a block with one return, and a function
\* declaration's name is bound to the call by a const declaration.
C19_WrappedMirrorsOriginal ==
  (result.rewritten = "rewritten")
  => \A e \in ExportsOf(source.inputCode) :
       LET cc == getComponentCode(disk, source.resourcePath, e.exported, e.isDefaultExport)
       IN (/\ cc.code \in pluginizedComponents
           /\ e.node.type \in FunctionTypes
           /\ CallOf(OutputNode(e), getPluginHash(cc.code)) # Null)
          => /\ Mirrors(e.node, CallOf(OutputNode(e), getPluginHash(cc.code)).arguments[2])
             /\ e.node.type = "FunctionDeclaration"
                  => ConstBinds(Output, e.node.id, getPluginHash(cc.code))

\* ------------------------------------------------------------- C20
\* The exports the rewriter examines: pluginizr.ts does not look at the
\* specifiers of `export { ... }`.
Examined(code) ==
  { e \in ExportsOf(code) : e.via = "specifier" => rewriter = "pluginizr.js" }

\* The loader calls hold addDependency and then addMissingDependency of the
\* file.
Registered(file) ==
  \E n \in 1..(Len(dependencies) - 1) :
    /\ dependencies[n] = [call |-> "addDependency", file |-> file]
    /\ dependencies[n + 1] = [call |-> "addMissingDependency", file |-> file]

\* C20: for every export the rewriter examined, the aggregator file of the
\* export's resource id, generated/<hash>.ts, was registered through
\* addDependency and addMissingDependency, with extensions or without.
C20_DependenciesRegistered ==
  (result.rewritten \in {"unchanged", "rewritten"})
  => \A e \in Examined(source.inputCode) :
       Registered("generated/"
                    \o getPluginHash(getComponentCode(disk, source.resourcePath, e.exported,
                                                      e.isDefaultExport).code)
                    \o ".ts")

\* C20 witness: export const Header = ... of header.tsx, no extensions
\* registered anywhere: the text came back unchanged and the aggregator file
\* of acme/components/header:Header was registered.
C20_Witness ==
  /\ pluginizedComponents = {}
  /\ source = [resourcePath |-> HeaderTsx, inputCode |-> SrcNamedConst]
  /\ result.rewritten = "unchanged"
  /\ dependencies = << [call |-> "addDependency", file |-> "generated/plugin_bf099fe6.ts"],
                       [call |-> "addMissingDependency", file |-> "generated/plugin_bf099fe6.ts"] >>

\* ------------------------------------------------------------- C21
\* The text holds something the parser rejects.
HasSyntaxError(inputCode) == \E n \in 1..Len(inputCode) : inputCode[n].type = "Unparsable"

\* C21: when the source of an eligible module cannot be parsed, or the
\* rewriter throws for another reason, the loader's callback gets the error;
\* the source is never delivered as a successful result.
C21_ErrorReported ==
  /\ (/\ result.rewritten # "none"
      /\ ~Skips(source.resourcePath, source.inputCode)
      /\ HasSyntaxError(source.inputCode))
     => result.rewritten = "threw"
  /\ result.rewritten = "threw"
     => \A n \in 1..Len(result.callbacks) :
          /\ result.callbacks[n].threw
          /\ result.callbacks[n].message # <<>>
          /\ result.callbacks[n].code = <<>>

\* C21 witness: the loader ran on text the parser rejects, in header.tsx, and
\* the callback got the parser's error.
C21_Witness ==
  /\ source = [resourcePath |-> HeaderTsx, inputCode |-> SrcUnparsable]
  /\ result.callbacks = <<Callback(TRUE, <<"SyntaxError">>, <<>>)>>

\* ------------------------------------------------------------- C28
\* C28: a loader invocation calls the callback exactly once, with (null, text)
\* or with an error: for a skipped module, after a rewrite and after a failure
\* of the rewriter.
C28_CallbackOnce ==
  (result.rewritten # "none")
  => /\ Len(result.callbacks) = 1
     /\ result.callbacks[1].threw <=> result.rewritten = "threw"
     /\ result.callbacks[1].threw => result.callbacks[1].code = <<>>
     /\ ~result.callbacks[1].threw => result.callbacks[1].message = <<>>

\* C28 witness: a module under node_modules, skipped, whose callback got
\* (null, the input text).
C28_Witness ==
  /\ source = [resourcePath |-> DepIndexJs, inputCode |-> SrcNamedConst]
  /\ result.rewritten = "skipped"
  /\ result.callbacks = <<Callback(FALSE, <<>>, SrcNamedConst)>>


\* ------------------------------------------------------------- C30
\* A call of one of the engine's entry points.
IsComposition(node) ==
  /\ node.type = "CallExpression"
  /\ node.callee \in {EntryPoints[n] : n \in 1..Len(EntryPoints)}

\* The expressions a text binds or exports: the inits of its declarators and
\* what its default export holds.
BoundExpressions(code) ==
  UNION { LET d == Decl(code[n])
          IN IF code[n].type = "ExportDefaultDeclaration" THEN {d}
             ELSE IF d.type = "VariableDeclaration"
             THEN { d.declarations[k].init : k \in 1..Len(d.declarations) }
             ELSE {} :
          n \in 1..Len(code) }

\* C30: within one pass of pluginizr.ts a declaration is wrapped by at most
\* one composition call: no composition call of the output holds another one,
\* also when the binding is exported by name and as the default export and
\* both resource ids have extensions; and the entry point of each call is the
\* one of the original expression.
C30_WrappedOnce ==
  (rewriter = "pluginizr.ts" /\ result.rewritten = "rewritten")
  => /\ \A w \in BoundExpressions(Output) :
          IsComposition(w) => ~IsComposition(w.arguments[2])
     /\ \A e \in ExportsOf(source.inputCode) :
          IsComposition(OutputNode(e)) => OutputNode(e).callee = EntryPointFor(e.node)


\* ------------------------------------------------------------- C29
\* The declarators of a text, exported or not.
Declarators(code) ==
  UNION { IF Decl(code[n]).type = "VariableDeclaration"
          THEN { Decl(code[n]).declarations[k] : k \in 1..Len(Decl(code[n]).declarations) }
          ELSE {} :
          n \in 1..Len(code) }

\* The names a destructuring pattern binds, each with the key or the index of
\* the element it takes.
PatternElements(pattern) ==
  IF pattern.type = "ObjectPattern"
  THEN { [name |-> pattern.properties[p].value, key |-> pattern.properties[p].key] :
           p \in 1..Len(pattern.properties) }
  ELSE { [name |-> pattern.elements[e], key |-> e] : e \in 1..Len(pattern.elements) }

\* The text binds the name to the element `key` of rhs: through the pattern
\* itself, or through `const name = temp.key` (wrapped or not) where temp is
\* bound to rhs.
BindsElement(code, el, pattern, rhs) ==
  \/ VariableDeclarator(pattern, rhs) \in Declarators(code)
  \/ \E d \in Declarators(code), temp \in Declarators(code) :
       /\ d.id = Id(el.name)
       /\ temp.id.type = "Identifier"
       /\ temp.init = rhs
       /\ LET access == MemberExpression(temp.id, el.key)
          IN \/ d.init = access
             \/ IsComposition(d.init) /\ d.init.arguments[2] = access

\* C29: after pluginizr.js rewrote a module that exports names bound by a
\* destructuring declaration, every name of the destructuring, exported or
\* not, of an object or an array pattern, is still bound to the same element
\* of the right-hand side, and the right-hand side is evaluated once.
C29_DestructuringKept ==
  (rewriter = "pluginizr.js" /\ result.rewritten \in {"rewritten", "unchanged"})
  => \A d \in { x \in Declarators(source.inputCode) :
                  x.id.type \in {"ObjectPattern", "ArrayPattern"} } :
       /\ \A el \in PatternElements(d.id) : BindsElement(Output, el, d.id, d.init)
       /\ Cardinality({ x \in Declarators(Output) : x.init = d.init }) = 1


\* ------------------------------------------------------------- C23
\* The operations that look the plugins of a resource id up.
LookupOps == {"withPluginsFC", "callFn", "withPluginsVal"}

\* C23: a descriptor whose kind differs from the requested kind is dropped from
\* the lookup's result; in development the lookup writes one diagnostic per
\* such descriptor, with its name, its resource id, the expected kind and the
\* actual kind; outside development it writes none; the lookup always returns.
C23_MismatchDiagnosed ==
  [][ (last'.op \in LookupOps) =>
        LET r == last'.resourceId
            t == KindOf(last'.op)
            invalid == SelectSeq(plugins[r], LAMBDA plugin : plugin.type # t)
        IN /\ r \in DOMAIN pluginsCache'
           /\ ~CacheHit(r) =>
                /\ \A i \in 1..Len(pluginsCache'[r]) : pluginsCache'[r][i].type = t
                /\ Len(pluginsCache'[r]) = Len(plugins[r]) - Len(invalid)
           /\ NODE_ENV = "development" =>
                /\ Len(errors') = Len(invalid)
                /\ \A i \in 1..Len(invalid) :
                     errors'[i] = [name |-> invalid[i].name, resourceId |-> r,
                                   expected |-> t, actual |-> invalid[i].type]
           /\ NODE_ENV # "development" => errors' = <<>>
    ]_vars

\* C23 witness: in development withPluginsFC looked up a resource id that has
\* one component, one function and one value plugin: two diagnostics, and a
\* list of one.
C23_Witness ==
  /\ NODE_ENV = "development"
  /\ last = Op("withPluginsFC", "r1", "")
  /\ Len(plugins["r1"]) = 3
  /\ Len(errors) = 2
  /\ Len(pluginsCache["r1"]) = 1


\* ------------------------------------------------------------- C24
\* The descriptor registered last has the name of a descriptor registered
\* before it for the same resource id.
DuplicateRegistered ==
  /\ last.op = "register"
  /\ LET list == plugins[last.resourceId]
     IN \E i \in 1..(Len(list) - 1) : list[i].name = list[Len(list)].name

\* C24: a descriptor registered under the name of a descriptor the resource id
\* already has is accepted, both are kept, and the registration writes a
\* warning.
C24_DuplicateNameWarned ==
  DuplicateRegistered
  => /\ Len(plugins[last.resourceId]) >= 2
     /\ errors # <<>>


\* ------------------------------------------------------------- C26
\* Is list the beginning of other?
IsPrefix(list, other) ==
  /\ Len(list) <= Len(other)
  /\ SubSeq(other, 1, Len(list)) = list

\* C26: sorting never changes the registry: a step that looks plugins up
\* leaves every list of the registry as it was, and every other step only
\* adds to the end of a list, so each list holds its descriptors in the order
\* they were registered in, whatever the number of compositions.
C26_RegistryKeepsOrder ==
  [][ /\ last'.op \in LookupOps => \A r \in ResourceIds : plugins'[r] = plugins[r]
      /\ \A r \in ResourceIds : IsPrefix(plugins[r], plugins'[r])
    ]_vars

\* C26 witness: withPluginsFC has sorted the two plugins of r1, registered
\* with sortOrder 5 first and -5 second; the registry still has 5 first.
C26_Witness ==
  /\ last = Op("withPluginsFC", "r1", "")
  /\ Len(plugins["r1"]) = 2
  /\ plugins["r1"][1].sortOrder = <<5>>
  /\ plugins["r1"][2].sortOrder = <<-5>>
  /\ pluginsCache["r1"] = << plugins["r1"][2], plugins["r1"][1] >>


\* ------------------------------------------------------------- C27
\* The plugins a lookup step put to use: the chain withPluginsFC built, or the
\* wraps a call or a value fold invoked.
UsedBy(op, composed, invoked) ==
  IF op = "withPluginsFC" THEN composed.chain ELSE invoked.wraps

\* C27: under NODE_ENV=production the list of a resource id is fixed by the
\* first getSortedPlugins call: the cached list never changes, every later
\* lookup uses plugins of that list only, and a descriptor registered after
\* the first call is in no later composition.  Under any other NODE_ENV every
\* lookup reads the registry and sorts again: the list it gets holds every
\* descriptor of the kind registered so far, and withPluginsFC composes all of
\* them.
C27_FixedByFirstCall ==
  [][ /\ NODE_ENV = "production" =>
           \A r \in DOMAIN pluginsCache :
             /\ r \in DOMAIN pluginsCache'
             /\ pluginsCache'[r] = pluginsCache[r]
      /\ last'.op \in LookupOps =>
           LET r == last'.resourceId
               t == KindOf(last'.op)
               used == UsedBy(last'.op, exported', calls')
           IN /\ (NODE_ENV = "production" /\ r \in DOMAIN pluginsCache) =>
                   \A i \in 1..Len(used) : Occurs(pluginsCache[r], used[i])
              /\ NODE_ENV # "production" =>
                   /\ IsPermutation(pluginsCache'[r], OfKind(plugins[r], t))
                   /\ last'.op = "withPluginsFC" =>
                        \A i \in 1..Len(plugins[r]) :
                          plugins[r][i].type = t => Occurs(used, plugins[r][i])
    ]_vars

\* C27 witness: under NODE_ENV=production withPluginsFC composed r1 again
\* after a second component plugin had been registered for it; the chain
\* holds the first plugin alone.
C27_Witness ==
  /\ NODE_ENV = "production"
  /\ last = Op("withPluginsFC", "r1", "")
  /\ Len(OfKind(plugins["r1"], Component)) = 2
  /\ Len(pluginsCache["r1"]) = 1
  /\ exported.chain = pluginsCache["r1"]


\* ------------------------------------------------------------- C25
\* C25: the upward walk ends for every start directory: a walk under way
\* leads to a return; each iteration that does not return moves to the parent
\* directory; the walk returns null when it reaches the filesystem root, and
\* then no directory it visited holds the file; what it returns is what
\* findUp returns.
C25_FindUpTerminates ==
  /\ (walk.status = "walking") ~> (walk.status \in {"found", "null"})
  /\ [][ (walk.status = "walking" /\ walk'.status = "walking")
           => /\ walk.dir # <<>>
              /\ walk'.dir = SubSeq(walk.dir, 1, Len(walk.dir) - 1) ]_vars
  /\ [](walk.status = "null"
          => /\ walk.dir = <<>>
             /\ \A dir \in walk.visited : ~existsSync(disk, dir, walk.filename))
  /\ [](walk.status \in {"found", "null"}
          => findUp(disk, walk.filename, walk.startDir)
               = [found |-> walk.status = "found",
                  dir |-> IF walk.status = "found" THEN walk.dir ELSE <<>>])

\* C25 witness: a walk for tsconfig.json from /pkg-root/src/components/header
\* went through four directories, found the file in none, and returned null
\* at the root.
C25_Witness ==
  /\ walk.status = "null"
  /\ walk.filename = "tsconfig.json"
  /\ walk.startDir = <<"pkg-root", "src", "components", "header">>
  /\ Cardinality(walk.visited) = 4


\* ------------------------------------------------------------- C22
\* The plugin_*.ts files of the generated directory.
ProxyFiles ==
  { f \in DOMAIN generatedDir.files : StartsWith(f, "plugin_") /\ EndsWith(f, ".ts") }

\* The extensions discovery finds in the plugins directory: the plugin files
\* of a named package in which it finds a resourceId, each with the resource
\* id its descriptor has.
DiscoveredExtensions ==
  { [resourceId |-> file.resourceId, module |-> pluginId(file)] :
      file \in { x \in pluginsDir : x.packageName # "" /\ searchPackage(x.content) # "" } }

\* The modules a proxy file's default export holds: the sources of the imports
\* its array elements are bound by.
DefaultExported(content) ==
  { content.imports[n].source :
      n \in { x \in DOMAIN content.imports :
                \E d \in DOMAIN content.default : content.default[d] = content.imports[x].local } }

\* The name of the proxy file of a resource id.
ProxyOf(resourceId) == getPluginHash(resourceId) \o ".ts"

\* C22: after generatePluginProxies the plugin_*.ts files of the generated
\* directory are one per resource id with a discovered extension, named
\* plugin_ and the first 8 hex digits of the sha256 of the resource id plus
\* ".ts"; no other plugin_*.ts file is left; and each file's default export is
\* the array of the extension modules of its resource id, no more and no less.
C22_ProxiesMatchExtensions ==
  (last.op = "generatePluginProxies")
  => /\ generatedDir.exists
     /\ ProxyFiles = { ProxyOf(e.resourceId) : e \in DiscoveredExtensions }
     /\ \A e \in DiscoveredExtensions :
          LET modules == { x.module : x \in { y \in DiscoveredExtensions :
                                                y.resourceId = e.resourceId } }
          IN /\ ProxyOf(e.resourceId) \in DOMAIN generatedDir.files
             /\ DefaultExported(generatedDir.files[ProxyOf(e.resourceId)]) = modules
             /\ Len(generatedDir.files[ProxyOf(e.resourceId)].default) = Cardinality(modules)

====
